---- MODULE Spec2Model ----
(***************************************************************************)
(* The session/connection broker of the remote-workbench gateway:          *)
(* CheWebsocketHandler (websocket handler), ManagementReconnectionDetails, *)
(* ExtensionHostReconnectionDetails, VSCodeProtocolHolder and the          *)
(* ExtensionHost supervisor.  One action per handler or continuation; a    *)
(* handler that suspends (await) is split at the suspension point.         *)
(***************************************************************************)
EXTENDS Integers, Sequences, FiniteSets, TLC

\* ---------------------------------------------------------------- bounds
MaxConn == 3        \* websocket connections accepted over a run
MaxInputs == 3      \* inputs over a run: control messages delivered, worker
                    \* messages, exits and errors, disposals, socket losses
MaxPort == 2        \* size of the debug-port range the allocator probes

Conns == 1..MaxConn
Tokens == {"T1", "T2"}
NoToken == "none"
\* parsedQuery.reconnectionToken when the parameter is absent, and when it is
\* given more than once (an array); "" when it is given empty
MissingToken == "<missing>"
ArrayToken == "<array>"
QueryTokens == Tokens \cup {MissingToken, "", ArrayToken}
BadRequest == "HTTP/1.1 400 Bad Request"
Kinds == {"Management", "ExtensionHost", "Tunnel"}
\* args.port of a connectionType request: Undef (absent) or 0 (allocate one)
Undef == -1
ReqPorts == {Undef, 0}
Ports == 1..MaxPort
\* bytes that may sit in a protocol's incoming buffer behind a request
BufVals == {<< >>, <<104, 105>>}
\* (permessageDeflate, skipWebSocketFrames) of the c-th upgrade request:
\* consecutive connections differ in both
ConnFlags(c) == <<c % 2 = 1, c % 2 = 1>>
\* args.break of the connectionType requests of connection c
ArgsBreak(c) == c % 2 = 0

\* productService.commit and the commits a client can name
ProductCommit == "c0"
Commits == {"c0", "c1"}

UnknownToken == "Asking to reconnect but provided token is unknown"
NoPrevious == "Reconnecting but no previous connection has been found. Aborting."
NoExtHost == "Extension host is not defined"

VARIABLES
  nConns,        \* number of sockets handle() has accepted so far
  holder,        \* VSCodeProtocolHolder of each connection
  proto,         \* PersistentProtocol of each holder: socket, disposed, buffer
  sock,          \* net.Socket of each connection: state, paused, peerClosed
  sent,          \* control messages written through each protocol, in order
  reqs,          \* control messages each holder's listener has handled, in order,
                 \* each with the table entry its handler found
  mgmt,          \* managementConnections: token -> holder of the entry (0: none)
  connectEvents, \* onDidClientConnectEmitter.fire calls, in order
  ext,           \* extensionHostConnections: token -> details id (0: none)
  nDetails,      \* ExtensionHostReconnectionDetails objects created
  details,       \* per details object: holder, remoteStartParams.port, extensionHost
  eh,            \* ExtensionHost supervisor of a details object
  nForks,        \* child_process.fork calls
  procs,         \* worker processes by pid
  pendingStart,  \* handlers suspended in `await validateDebugPort`
  pendingSend,   \* sendExthostIpcSocket calls suspended in `await drain()`
  abortDrain,    \* abortWebSocketConnection calls suspended in `await drain()`
  nEvents,       \* inputs other than control messages taken so far
  ipcLog,        \* extensionHostProcess.send(VSCODE_EXTHOST_IPC_SOCKET, socket) calls
  upgradeReq,    \* an upgrade request given to upgradeSocket on its own
  upgradeOut,    \* what upgradeSocket wrote and returned for upgradeReq
  mgmtDisposed,  \* tokens whose ManagementReconnectionDetails has disposed = true
  uriRun,        \* a URI given to the transformer of a session, and its results
  main,          \* startCheCode: where the startup is, what it threw and logged
  http,          \* HttpMessage.serveFile: the request, the file, what was written
  fsChannel,     \* RemoteFileSystemChannel: its two maps, the emitters and watches
  fileStream     \* a listen('readFileStream'): the read, its emitter and token source

vars == <<nConns, holder, proto, sock, sent, reqs, mgmt, connectEvents, ext,
          nDetails, details, eh, nForks, procs, pendingStart, pendingSend,
          abortDrain, nEvents, ipcLog, upgradeReq, upgradeOut, mgmtDisposed,
          uriRun, main, http, fsChannel, fileStream>>

upgradeVars == <<upgradeReq, upgradeOut>>

\* what the broker's callbacks never touch: the upgrade taken alone, the URI
\* transformer and the startup of the process
outsideVars ==
  <<upgradeReq, upgradeOut, uriRun, main, http, fsChannel, fileStream>>

\* the services next to the broker: static files, the remote filesystem
serviceVars == <<http, fsChannel, fileStream>>

brokerVars == <<mgmt, connectEvents, ext, nDetails, details, eh, nForks, procs,
                pendingStart, pendingSend, ipcLog>>

\* ------------------------------------------------------------ base64
\* Buffer.toString('base64'): sextet indices 0..63, 64 stands for '='.
Pad == 64

RECURSIVE Base64(_)
Base64(bytes) ==
  IF Len(bytes) = 0 THEN << >>
  ELSE IF Len(bytes) = 1 THEN
    << bytes[1] \div 4, (bytes[1] % 4) * 16, Pad, Pad >>
  ELSE IF Len(bytes) = 2 THEN
    << bytes[1] \div 4, (bytes[1] % 4) * 16 + bytes[2] \div 16,
       (bytes[2] % 16) * 4, Pad >>
  ELSE
    << bytes[1] \div 4, (bytes[1] % 4) * 16 + bytes[2] \div 16,
       (bytes[2] % 16) * 4 + bytes[3] \div 64, bytes[3] % 64 >>
    \o Base64(SubSeq(bytes, 4, Len(bytes)))

\* ------------------------------------------------------------ messages
\* a JSON control message; a key the object does not have is NoField (for
\* debugPort: Undef)
NoField == "<none>"
SignRequest == [type |-> "sign", data |-> "", reason |-> NoField, debugPort |-> Undef]
OKMessage == [type |-> "ok", data |-> NoField, reason |-> NoField, debugPort |-> Undef]
ErrorMessage(reason) ==
  [type |-> "error", data |-> NoField, reason |-> reason, debugPort |-> Undef]
\* what sendDisconnect writes
DisconnectMessage ==
  [type |-> "disconnect", data |-> NoField, reason |-> NoField, debugPort |-> Undef]
\* connect() sends {debugPort} when the port is truthy and {} otherwise
DebugPortMessage(port) ==
  [type |-> NoField, data |-> NoField, reason |-> NoField,
   debugPort |-> IF port > 0 THEN port ELSE Undef]

\* a handled control message: what the client asked, the bytes buffered behind
\* it, the commit it names, the entry the handler's table lookup returned (0: none), and how much
\* the protocol had sent before
Request(type, kind, port, extra, commit, found, at) ==
  [type |-> type, kind |-> kind, port |-> port, extra |-> extra, commit |-> commit,
   found |-> found, at |-> at]

NoHolder ==
  [token |-> NoToken, reconnection |-> FALSE, permessageDeflate |-> FALSE,
   skipWebSocketFrames |-> FALSE]
NoProto == [socket |-> 0, disposed |-> FALSE, buf |-> << >>]
NoSock ==
  [state |-> "none", paused |-> FALSE, peerClosed |-> FALSE, wrote |-> << >>,
   token |-> NoToken]
\* dropped: the entry was deleted from the table by a disconnect listener
NoDetails ==
  [holder |-> 0, port |-> Undef, brk |-> FALSE, extensionHost |-> FALSE,
   dropped |-> FALSE]
NoEh == [socket |-> 0, holder |-> 0, disposed |-> FALSE, proc |-> 0,
         readyListener |-> FALSE, initialDataChunk |-> << >>, ends |-> 0]
NoProc ==
  [state |-> "none", ready |-> FALSE, killed |-> 0, port |-> Undef, brk |-> FALSE,
   errorAt |-> Undef, errors |-> 0]

\* ------------------------------------------------- PersistentProtocol
\* sendControl: the writer drops what is written after dispose()
SendControl(snt, pr, p, msg) ==
  [snt EXCEPT ![p] = Append(@, [msg |-> msg, live |-> ~pr[p].disposed])]

ProtocolDispose(pr, p) == [pr EXCEPT ![p].disposed = TRUE]

\* readEntireBuffer drains the reader's buffer
ReadEntireBuffer(pr, p) == [pr EXCEPT ![p].buf = << >>]

\* beginAcceptReconnection(socket, chunk): the resident protocol drops its
\* socket, reads and writes on the new one and accepts the residual bytes
BeginAcceptReconnection(pr, r, newSocket, chunk) ==
  [pr EXCEPT ![r].socket = newSocket, ![r].disposed = FALSE, ![r].buf = @ \o chunk]

SocketDispose(sk, s) == [sk EXCEPT ![s].state = "destroyed"]
SocketEnd(sk, s) ==
  [sk EXCEPT ![s].state = IF @ = "destroyed" THEN "destroyed" ELSE "ended"]
SocketPause(sk, s) == [sk EXCEPT ![s].paused = TRUE]

\* a control message can reach holder p's listener: the protocol still reads,
\* and the socket it reads from is open with the client behind it
RECURSIVE SumTo(_, _)
SumTo(f, n) == IF n = 0 THEN 0 ELSE f[n] + SumTo(f, n - 1)

\* the inputs taken so far
Inputs == SumTo([c \in Conns |-> Len(reqs[c])], MaxConn) + nEvents

\* no handler is suspended on an already-resolved promise: the event loop is
\* free to run the next I/O callback
Macrotask == \A h \in pendingStart : h.io

CanReceive(p) ==
  /\ p <= nConns
  /\ holder[p] # NoHolder
  /\ ~proto[p].disposed
  /\ sock[proto[p].socket].state = "open"
  /\ ~sock[proto[p].socket].paused
  /\ ~sock[proto[p].socket].peerClosed
  /\ Inputs < MaxInputs
  \* while a handler waits on a resolved promise only the messages of the
  \* chunk being read (same protocol) are dispatched
  /\ \A h \in pendingStart : h.io \/ h.holder = p

BrokerInit ==
  /\ nConns = 0
  /\ holder = [c \in Conns |-> NoHolder]
  /\ proto = [c \in Conns |-> NoProto]
  /\ sock = [c \in Conns |-> NoSock]
  /\ sent = [c \in Conns |-> << >>]
  /\ reqs = [c \in Conns |-> << >>]
  /\ mgmt = [t \in Tokens |-> 0]
  /\ connectEvents = << >>
  /\ ext = [t \in Tokens |-> 0]
  /\ nDetails = 0
  /\ details = [d \in Conns |-> NoDetails]
  /\ eh = [d \in Conns |-> NoEh]
  /\ nForks = 0
  /\ procs = [w \in Conns |-> NoProc]
  /\ pendingStart = {}
  /\ pendingSend = {}
  /\ abortDrain = {}
  /\ nEvents = 0
  /\ ipcLog = << >>
  /\ mgmtDisposed = {}

\* ------------------------------------------------------- WebsocketUpgrade
\* Header text is a sequence of tokens: names, values and the separators
\* "," ";" "=".
GUID == "258EAFA5-E914-47DA-95CA-C5AB0DC85B11"
DEFAULT_CLIENT_MAX_WINDOW_BITS == 15

\* String(n) for the window sizes
NumText(n) == << "8", "9", "10", "11", "12", "13", "14", "15" >>[n - 7]

\* the value the parser gives a parameter that has none (JavaScript true)
JsTrue == "<true>"

SampleKey == "dGhlIHNhbXBsZSBub25jZQ=="
\* Sec-WebSocket-Key as received: absent, a 16-byte nonce in base64, the same
\* with blanks around it, something that is no such nonce, empty
KeyHeaders == {NoField, SampleKey, " dGhlIHNhbXBsZSBub25jZQ== ", "not-a-key", ""}

\* String.prototype.trim on the keys above
Trim(k) == IF k = " dGhlIHNhbXBsZSBub25jZQ== " THEN SampleKey ELSE k

\* createHash('sha1').update(text).digest('base64'), text given by its parts
Sha1Base64(parts) == [sha1 |-> parts]

\* the segments of ts between the separators sep
RECURSIVE SplitOn(_, _)
SplitOn(ts, sep) ==
  IF \A i \in DOMAIN ts : ts[i] # sep THEN << ts >>
  ELSE LET i == CHOOSE k \in DOMAIN ts : ts[k] = sep /\ \A j \in 1..(k - 1) : ts[j] # sep
       IN << SubSeq(ts, 1, i - 1) >> \o SplitOn(SubSeq(ts, i + 1, Len(ts)), sep)

\* one offer "name; k; k=v": its name and its parameters in order, each with
\* the list of its values
ParseOffer(seg) ==
  LET items == SplitOn(seg, ";") IN
  [name |-> items[1][1],
   params |-> [i \in 1..(Len(items) - 1) |->
     [name |-> items[i + 1][1],
      values |-> << IF Len(items[i + 1]) = 3 THEN items[i + 1][3] ELSE JsTrue >>]]]

\* HeaderParser.parse: for each extension name offered, the parameter lists of
\* its offers in the order given; nothing for an absent header
HeaderParse(header) ==
  LET offers == IF header = << >> THEN << >>
                ELSE [i \in 1..Len(SplitOn(header, ",")) |->
                       ParseOffer(SplitOn(header, ",")[i])]
      names == {offers[i].name : i \in DOMAIN offers}
  IN [n \in names |->
       LET at == {i \in DOMAIN offers : offers[i].name = n}
           RECURSIVE Pick(_)
           Pick(i) == IF i > Len(offers) THEN << >>
                      ELSE (IF i \in at THEN << offers[i].params >> ELSE << >>)
                           \o Pick(i + 1)
       IN Pick(1)]

RECURSIVE FormatParams(_)
FormatParams(params) ==
  IF params = << >> THEN << >>
  ELSE LET q == params[1] IN
       << ";", q.name >>
       \o (IF q.values[1] = JsTrue THEN << >> ELSE << "=", q.values[1] >>)
       \o FormatParams(Tail(params))

\* HeaderParser.format of one extension name with its offers
RECURSIVE HeaderFormat(_, _)
HeaderFormat(name, configs) ==
  IF configs = << >> THEN << >>
  ELSE << name >> \o FormatParams(configs[1])
       \o (IF Len(configs) > 1 THEN << "," >> \o HeaderFormat(name, Tail(configs))
           ELSE << >>)

\* the map of lines 419-423 over one offer's parameters
DefaultWindowBits(params) ==
  [i \in DOMAIN params |->
    IF params[i].name = "client_max_window_bits" /\ params[i].values[1] = JsTrue
    THEN [params[i] EXCEPT !.values = << NumText(DEFAULT_CLIENT_MAX_WINDOW_BITS) >>]
    ELSE params[i]]

\* an upgrade request: its Sec-WebSocket-Key and Sec-WebSocket-Extensions
UpgradeRequest(key, extensions) == [key |-> key, extensions |-> extensions]

\* upgradeSocket as it would be if it echoed the offers as parsed
UpgradeSocket_EchoAsOffered(req) ==
  LET key == IF req.key # NoField THEN Trim(req.key) ELSE "false"
      offers == HeaderParse(req.extensions)
      offered == "permessage-deflate" \in DOMAIN offers
  IN [status |-> "HTTP/1.1 101 Switching Protocols",
      upgrade |-> "websocket",
      connection |-> "Upgrade",
      accept |-> Sha1Base64(<< key, GUID >>),
      hasExtensions |-> offered,
      extensions |-> IF offered
                     THEN HeaderFormat("permessage-deflate", offers["permessage-deflate"])
                     ELSE << >>,
      permessageDeflate |-> offered]

\* upgradeSocket(req, socket): what it writes to the socket and the flag it
\* returns
UpgradeSocket(req) ==
  LET key == IF req.key # NoField THEN Trim(req.key) ELSE "false"
      digest == Sha1Base64(<< key, GUID >>)
      offers == HeaderParse(req.extensions)
      offered == "permessage-deflate" \in DOMAIN offers
      configs == IF offered
                 THEN [i \in DOMAIN offers["permessage-deflate"] |->
                        DefaultWindowBits(offers["permessage-deflate"][i])]
                 ELSE << >>
  IN [status |-> "HTTP/1.1 101 Switching Protocols",
      upgrade |-> "websocket",
      connection |-> "Upgrade",
      accept |-> digest,
      hasExtensions |-> offered,
      extensions |-> IF offered THEN HeaderFormat("permessage-deflate", configs)
                     ELSE << >>,
      permessageDeflate |-> offered]

\* nothing written yet
NoResponse ==
  [status |-> NoField, upgrade |-> NoField, connection |-> NoField,
   accept |-> Sha1Base64(<< >>), hasExtensions |-> FALSE, extensions |-> << >>,
   permessageDeflate |-> FALSE]

\* ------------------------------------------------------ URI transformer
\* UriParts: an object with scheme and path, and authority, query and
\* fragment when it has them
UriParts(scheme, authority, path, query, fragment) ==
  [scheme |-> scheme, authority |-> authority, path |-> path, query |-> query,
   fragment |-> fragment]

TransformIncoming(uri) ==
  IF uri.scheme = "file"
  THEN UriParts("vscode-local", NoField, uri.path, NoField, NoField)
  ELSE IF uri.scheme = "vscode-remote"
  THEN UriParts("file", NoField, uri.path, NoField, NoField)
  ELSE uri

\* transformOutgoing as it would be if it kept the authority of the URI
TransformOutgoing_KeepsAuthority(remoteAuthority, uri) ==
  IF uri.scheme = "file"
  THEN UriParts("vscode-remote", uri.authority, uri.path, NoField, NoField)
  ELSE IF uri.scheme = "vscode-local"
  THEN UriParts("file", NoField, uri.path, NoField, NoField)
  ELSE uri

TransformOutgoing(remoteAuthority, uri) ==
  IF uri.scheme = "file"
  THEN UriParts("vscode-remote", remoteAuthority, uri.path, NoField, NoField)
  ELSE IF uri.scheme = "vscode-local"
  THEN UriParts("file", NoField, uri.path, NoField, NoField)
  ELSE uri

TransformOutgoingScheme(scheme) ==
  IF scheme = "file" THEN "vscode-remote"
  ELSE IF scheme = "vscode-local" THEN "file"
  ELSE scheme

\* the URIs given to a transformer, and the authorities of sessions
Schemes == {"file", "vscode-remote", "vscode-local", "untitled"}
Authorities == {"hostA", "hostB"}
Uris ==
  {UriParts(sc, a, pa, q, f) :
     sc \in Schemes, a \in {NoField} \cup Authorities, pa \in {"/a", "/b c"},
     q \in {NoField, "x=1"}, f \in {NoField, "L3"}}

NoUri == UriParts(NoField, NoField, NoField, NoField, NoField)
\* a transformer made for remoteAuthority and the URI given to it; the
\* results once its functions were applied
UriRun(remoteAuthority, uri) ==
  [remoteAuthority |-> remoteAuthority, uri |-> uri, applied |-> FALSE,
   incoming |-> NoUri, outgoing |-> NoUri, outgoingOfIncoming |-> NoUri,
   incomingOfOutgoing |-> NoUri, outgoingScheme |-> NoField]

\* ------------------------------------------------------------- startup
\* where an error is thrown during startup, if anywhere (claimInstance throws
\* of its own when started with --status), and the code of that error
ThrowPoints == {NoField, "resolveArgs", "createServices", "initServices", "application"}
ErrorCodes == {"EACCES", "EPERM", "ENOSPC"}

\* process.exit was not called
Running == -1

\* startCheCode() called: nothing done yet
Main(throwsAt, code, status) ==
  [pc |-> "resolveArgs", throwsAt |-> throwsAt, code |-> code, status |-> status,
   thrown |-> << >>, logged |-> << >>, httpServer |-> FALSE, exitCode |-> Running]

\* -------------------------------------------------------- static files
\* fs.Stats of the files served: inode, size in bytes, mtime in milliseconds
Stats == [ino : {1, 2}, size : {0, 12}, mtime : {1000, 2000}]
\* fs.stat rejects (ENOENT, EACCES)
NoStat == [ino |-> 0, size |-> 0, mtime |-> 0]
FilePaths == {"/static/a.js", "/static/b.PNG", "/static/c"}

\* path.extname of the paths above
Extname(filePath) ==
  IF filePath = "/static/a.js" THEN ".js"
  ELSE IF filePath = "/static/b.PNG" THEN ".PNG"
  ELSE ""

\* String.prototype.toLowerCase on the extensions above
ToLowerCase(extension) == IF extension = ".PNG" THEN ".png" ELSE extension

\* HttpMessage.TEXT_MIME_TYPES[ext] and MAP_EXT_TO_MEDIA_MIMES[ext], NoField
\* where the table has no such key
TEXT_MIME_TYPES(extension) ==
  IF extension = ".html" THEN "text/html"
  ELSE IF extension = ".js" THEN "text/javascript"
  ELSE IF extension = ".json" THEN "application/json"
  ELSE IF extension = ".css" THEN "text/css"
  ELSE IF extension = ".svg" THEN "image/svg+xml"
  ELSE NoField

MAP_EXT_TO_MEDIA_MIMES(extension) ==
  IF extension = ".png" THEN "image/png"
  ELSE IF extension = ".gif" THEN "image/gif"
  ELSE IF extension = ".ico" THEN "image/x-icon"
  ELSE NoField

GetMediaMime(forPath) == MAP_EXT_TO_MEDIA_MIMES(ToLowerCase(Extname(forPath)))

\* `W/"${[stat.ino, stat.size, stat.mtime.getTime()].join('-')}"`
Etag(stat) ==
  "W/\"" \o ToString(stat.ino) \o "-" \o ToString(stat.size) \o "-"
         \o ToString(stat.mtime) \o "\""

\* the same validator in its strong form, as a client may send it
StrongEtag(stat) ==
  "\"" \o ToString(stat.ino) \o "-" \o ToString(stat.size) \o "-"
       \o ToString(stat.mtime) \o "\""

\* req.headers['if-none-match']: absent, any, or the validator of some state
\* of some file
IfNoneMatchHeaders ==
  {NoField, "*"} \cup {Etag(st) : st \in Stats} \cup {StrongEtag(st) : st \in Stats}

NoHeaders == [contentType |-> NoField, etag |-> NoField]

\* a request given to serveFile(filePath): nothing written yet
HttpMessage(filePath, stat, ifNoneMatch) ==
  [pc |-> "serveFile", filePath |-> filePath, file |-> stat,
   ifNoneMatch |-> ifNoneMatch, writeHead |-> << >>, headers |-> NoHeaders,
   ended |-> FALSE, body |-> << >>, reads |-> 0, logged |-> 0]

NoHttpMessage == [HttpMessage(NoField, NoStat, NoField) EXCEPT !.pc = "idle"]

\* ------------------------------------------------ remote filesystem
MaxListen == 2      \* listen('filechange') calls over a run
MaxWatch == 2       \* watches started over a run
MaxCalls == 4       \* watch and unwatch calls over a run

\* the session ids clients subscribe with and the request ids of their watches
Sessions == {"s", "s1"}
WatchReqs == {1, 2}

\* `${arg[0]}${arg[1]}`
WatchKey(session, req) == session \o ToString(req)

\* every key the two maps can be asked for
MapKeys == Sessions \cup {WatchKey(se, r) : se \in Sessions, r \in WatchReqs}

NoCall == [command |-> NoField, session |-> NoField, req |-> 0]

\* new RemoteFileSystemChannel(...): both maps empty (0: no value for the key)
RemoteFileSystemChannel ==
  [fileWatchers |-> [k \in MapKeys |-> 0],
   fileWatcherDisposables |-> [k \in MapKeys |-> 0],
   emitters |-> << >>,     \* per listen('filechange'): arg[0], listeners
   providers |-> << >>,    \* per new DiskFileSystemProvider: dispose() calls
   watches |-> << >>,      \* per fileWatcher.watch(): its provider, dispose() calls
   calls |-> 0,
   last |-> NoCall]

MaxSubscribers == 2   \* listeners of one readFileStream event over a run
Subscribers == 1..MaxSubscribers

\* the chunks the provider's read of a file produces
Chunks == {<< 1 >>, << 2, 3 >>}
Files == {<< >>} \cup {<< a >> : a \in Chunks} \cup {<< a, b >> : a \in Chunks, b \in Chunks}

\* what the emitter fires: wrapData(data), the error, 'end'
DataPayload(data) == [kind |-> "data", buffer |-> data]
ErrorPayload == [kind |-> "error", buffer |-> << >>]
EndPayload == [kind |-> "end", buffer |-> << >>]

\* listen(ctx, 'readFileStream', [resource, opts]) not called yet, for a file
\* and for whether this read will fail
ReadFileStream(file, fails) ==
  [pc |-> "listen", file |-> file, fails |-> fails, pos |-> 0,
   read |-> "none",            \* reading, failed, cancelled, ended
   cancelled |-> FALSE,        \* the token: cancel() was called
   subscribed |-> 0,           \* listeners added so far
   listeners |-> {},
   delivered |-> [l \in Subscribers |-> << >>],
   emitterDisposed |-> FALSE, sourceDisposed |-> FALSE]

ServicesIdle ==
  /\ http = NoHttpMessage
  /\ fsChannel = RemoteFileSystemChannel
  /\ fileStream = ReadFileStream(<< >>, FALSE)

Init ==
  /\ BrokerInit
  /\ upgradeReq = UpgradeRequest(NoField, << >>)
  /\ upgradeOut = NoResponse
  /\ uriRun = UriRun(NoField, NoUri)
  /\ main = Main(NoField, "ENOSPC", FALSE)
  /\ ServicesIdle

\* ------------------------------------------------------------ handle
\* the upgrade request of connection c
ConnRequest(c) ==
  UpgradeRequest(SampleKey,
    IF ConnFlags(c)[1] THEN << "permessage-deflate", ";", "client_max_window_bits" >>
    ELSE << >>)

\* handle as it would be without the check of the reconnection token
Handle_NoTokenCheck(tok, reconnection, deflate, skip) ==
  /\ Macrotask
  /\ nConns < MaxConn
  /\ (\A c \in 1..nConns : holder[c] = NoHolder) => tok # "T2"
  /\ nConns > 0 => (Len(reqs[nConns]) > 0 \/ holder[nConns] = NoHolder)
  /\ LET c == nConns + 1
         res == UpgradeSocket(ConnRequest(c))
     IN /\ deflate = res.permessageDeflate
        /\ nConns' = c
        /\ holder' = [holder EXCEPT ![c] =
             [token |-> tok, reconnection |-> reconnection,
              permessageDeflate |-> deflate, skipWebSocketFrames |-> skip]]
        /\ proto' = [proto EXCEPT ![c] = [socket |-> c, disposed |-> FALSE, buf |-> << >>]]
        /\ sock' = [sock EXCEPT ![c] =
             [state |-> "open", paused |-> FALSE, peerClosed |-> FALSE,
              wrote |-> << res.status >>, token |-> tok]]
  /\ UNCHANGED <<sent, reqs, abortDrain, nEvents>>
  /\ UNCHANGED brokerVars
  /\ UNCHANGED mgmtDisposed
  /\ UNCHANGED outsideVars

\* handle(req, socket): upgrade, parse the query, answer 400 without a single
\* reconnection token, else construct the holder and subscribe to its control
\* messages
Handle(tok, reconnection, deflate, skip) ==
  /\ Macrotask
  /\ nConns < MaxConn
  \* tokens are interchangeable (the first one used is T1), and accepting a
  \* socket commutes with every step of the others: connections are numbered
  \* in the order of their first control message
  /\ (\A c \in 1..nConns : holder[c] = NoHolder) => tok # "T2"
  /\ nConns > 0 => (Len(reqs[nConns]) > 0 \/ holder[nConns] = NoHolder)
  /\ LET c == nConns + 1
         res == UpgradeSocket(ConnRequest(c))
     IN /\ deflate = res.permessageDeflate
        /\ nConns' = c
        /\ IF tok = MissingToken \/ tok = "" \/ tok = ArrayToken
           THEN \* socket.end('HTTP/1.1 400 Bad Request'); a refused upgrade
                \* counts as an input
                /\ Inputs < MaxInputs
                /\ nEvents' = nEvents + 1
                /\ sock' = [sock EXCEPT ![c] =
                     [state |-> "ended", paused |-> FALSE, peerClosed |-> FALSE,
                      wrote |-> << res.status, BadRequest >>, token |-> tok]]
                /\ UNCHANGED <<holder, proto>>
           ELSE /\ holder' = [holder EXCEPT ![c] =
                     [token |-> tok, reconnection |-> reconnection,
                      permessageDeflate |-> deflate, skipWebSocketFrames |-> skip]]
                /\ proto' = [proto EXCEPT ![c] =
                     [socket |-> c, disposed |-> FALSE, buf |-> << >>]]
                /\ sock' = [sock EXCEPT ![c] =
                     [state |-> "open", paused |-> FALSE, peerClosed |-> FALSE,
                      wrote |-> << res.status >>, token |-> tok]]
                /\ UNCHANGED nEvents
  /\ UNCHANGED <<sent, reqs, abortDrain>>
  /\ UNCHANGED brokerVars
  /\ UNCHANGED mgmtDisposed
  /\ UNCHANGED outsideVars

\* handleAuthRequest as it would be if it answered twice
HandleAuthRequest_SignsTwice(p) ==
  /\ CanReceive(p)
  /\ reqs' = [reqs EXCEPT ![p] =
       Append(@, Request("auth", "", Undef, << >>, NoField, 0, Len(sent[p])))]
  /\ sent' = SendControl(SendControl(sent, proto, p, SignRequest), proto, p, SignRequest)
  /\ UNCHANGED <<nConns, holder, proto, sock, abortDrain, nEvents>>
  /\ UNCHANGED brokerVars
  /\ UNCHANGED mgmtDisposed
  /\ UNCHANGED outsideVars

\* handleAuthRequest
HandleAuthRequest(p) ==
  /\ CanReceive(p)
  /\ reqs' = [reqs EXCEPT ![p] = Append(@, Request("auth", "", Undef, << >>, NoField, 0, Len(sent[p])))]
  /\ sent' = SendControl(sent, proto, p, SignRequest)
  /\ UNCHANGED <<nConns, holder, proto, sock, abortDrain, nEvents>>
  /\ UNCHANGED brokerVars
  /\ UNCHANGED mgmtDisposed
  /\ UNCHANGED outsideVars

\* abortWebSocketConnection up to `await drain()`: the error goes out on the
\* holder's protocol, which is then disposed
AbortWebSocketConnection(p, reason, pr) ==
  /\ sent' = SendControl(sent, pr, p, ErrorMessage(reason))
  /\ proto' = ProtocolDispose(pr, p)
  /\ abortDrain' = abortDrain \cup {<<p, pr[p].socket>>}

\* abortWebSocketConnection after the drain of the socket a[2]: getSocket()
\* is asked again, and the socket the protocol has by then is disposed
AbortDrained(a) ==
  /\ Macrotask
  /\ a \in abortDrain
  /\ abortDrain' = abortDrain \ {a}
  /\ sock' = SocketDispose(sock, proto[a[1]].socket)
  /\ UNCHANGED <<nConns, holder, proto, sent, reqs, nEvents>>
  /\ UNCHANGED brokerVars
  /\ UNCHANGED mgmtDisposed
  /\ UNCHANGED outsideVars

\* reconnect() as it would be if it fired the client-connected event again
ManagementReconnect_FiresEvent(r, p, pr0) ==
  LET snt1 == SendControl(sent, pr0, p, OKMessage)
      pr1 == ReadEntireBuffer(pr0, p)
      pr2 == BeginAcceptReconnection(pr1, r, pr1[p].socket, pr0[p].buf)
      pr3 == ProtocolDispose(pr2, p)
  IN /\ sock' = SocketDispose(sock, pr1[r].socket)
     /\ proto' = pr3
     /\ sent' = SendControl(snt1, pr3, p, OKMessage)
     /\ connectEvents' = Append(connectEvents,
          [token |-> holder[p].token, protocol |-> p])
     /\ UNCHANGED <<mgmt, abortDrain>>

\* reconnect() as it would be if the ok went out on the resident protocol
ManagementReconnect_OkOnResident(r, p, pr0) ==
  LET snt1 == SendControl(sent, pr0, r, OKMessage)
      pr1 == ReadEntireBuffer(pr0, p)
      pr2 == BeginAcceptReconnection(pr1, r, pr1[p].socket, pr0[p].buf)
      pr3 == ProtocolDispose(pr2, p)
  IN /\ sock' = SocketDispose(sock, pr1[r].socket)
     /\ proto' = pr3
     /\ sent' = SendControl(snt1, pr3, p, OKMessage)
     /\ UNCHANGED <<mgmt, connectEvents, abortDrain>>

\* ManagementReconnectionDetails.reconnect(protocolHolder), on the entry whose
\* resident holder is r, then the trailing ok of handleConnectionTypeRequest
ManagementReconnect(r, p, pr0) ==
  LET snt1 == SendControl(sent, pr0, p, OKMessage)
      entireBuffer == pr0[p].buf
      pr1 == ReadEntireBuffer(pr0, p)
      newSocket == pr1[p].socket
      oldSocket == pr1[r].socket
      pr2 == BeginAcceptReconnection(pr1, r, newSocket, entireBuffer)
      pr3 == ProtocolDispose(pr2, p)
  IN /\ sock' = SocketDispose(sock, oldSocket)
     /\ proto' = pr3
     /\ sent' = SendControl(snt1, pr3, p, OKMessage)
     /\ UNCHANGED <<mgmt, connectEvents, abortDrain>>

\* the management case as it would be without the `return` of its abort
ManagementPath_NoReturn(p, pr0) ==
  LET t == holder[p].token
      pr1 == ProtocolDispose(pr0, p)
  IN
  IF mgmt[t] = 0 /\ holder[p].reconnection
  THEN /\ sent' = SendControl(SendControl(sent, pr0, p, ErrorMessage(UnknownToken)),
                              pr1, p, OKMessage)
       /\ proto' = pr1
       /\ abortDrain' = abortDrain \cup {<<p, pr0[p].socket>>}
       /\ mgmt' = [mgmt EXCEPT ![t] = p]
       /\ connectEvents' = Append(connectEvents, [token |-> t, protocol |-> p])
       /\ UNCHANGED sock
  ELSE IF mgmt[t] = 0
  THEN /\ mgmt' = [mgmt EXCEPT ![t] = p]
       /\ connectEvents' = Append(connectEvents, [token |-> t, protocol |-> p])
       /\ sent' = SendControl(sent, pr0, p, OKMessage)
       /\ proto' = pr0
       /\ UNCHANGED <<sock, abortDrain>>
  ELSE ManagementReconnect(mgmt[t], p, pr0)

\* case ConnectionType.Management
ManagementPath(p, pr0) ==
  LET t == holder[p].token IN
  IF mgmt[t] = 0 /\ holder[p].reconnection
  THEN /\ AbortWebSocketConnection(p, UnknownToken, pr0)
       /\ UNCHANGED <<sock, mgmt, connectEvents>>
  ELSE IF mgmt[t] = 0
  THEN /\ mgmt' = [mgmt EXCEPT ![t] = p]
       /\ connectEvents' = Append(connectEvents, [token |-> t, protocol |-> p])
       /\ sent' = SendControl(sent, pr0, p, OKMessage)
       /\ proto' = pr0
       /\ UNCHANGED <<sock, abortDrain>>
  ELSE ManagementReconnect(mgmt[t], p, pr0)

\* ManagementReconnectionDetails.dispose() of the entry of token t: once only;
\* disconnect on the entry's protocol, dispose it, end its socket
ManagementDispose(t) ==
  /\ Macrotask
  /\ Inputs < MaxInputs
  /\ nEvents' = nEvents + 1
  /\ mgmt[t] # 0
  /\ IF t \in mgmtDisposed
     THEN UNCHANGED <<sent, proto, sock, mgmtDisposed>>
     ELSE LET r == mgmt[t] IN
          /\ mgmtDisposed' = mgmtDisposed \cup {t}
          /\ sent' = SendControl(sent, proto, r, DisconnectMessage)
          /\ proto' = ProtocolDispose(proto, r)
          /\ sock' = SocketEnd(sock, proto[r].socket)
  /\ UNCHANGED <<nConns, holder, reqs, abortDrain>>
  /\ UNCHANGED brokerVars
  /\ UNCHANGED outsideVars

\* the tunnel case as it would be if it announced a client
TunnelPath_FiresEvent(p, pr0) ==
  /\ sent' = SendControl(sent, pr0, p, OKMessage)
  /\ proto' = pr0
  /\ connectEvents' = Append(connectEvents, [token |-> holder[p].token, protocol |-> p])
  /\ UNCHANGED <<sock, abortDrain, mgmt>>

\* case ConnectionType.Tunnel
TunnelPath(p, pr0) ==
  /\ sent' = SendControl(sent, pr0, p, OKMessage)
  /\ proto' = pr0
  /\ UNCHANGED <<sock, abortDrain, mgmt, connectEvents>>

\* -------------------------------------------------------- ExtensionHost
\* webSocketNodeSocket.recordedInflateBytes of connection c: the tail of what
\* its inflater produced, empty when permessage-deflate is off
RecordedInflateBytes(c) == IF holder[c].permessageDeflate THEN <<200 + c>> ELSE << >>

\* the supervisor (details id) that owns worker w
SupervisorOf(w) == CHOOSE d \in Conns : eh[d].proc = w

\* ExtensionHost.connect(protocolHolder, debugPort) of supervisor e: the
\* control message goes out on the holder given; the chunk is read from the
\* supervisor's stored holder and the supervisor's stored socket is paused
ConnectChunk(e, p, pr) == Base64(pr[e.holder].buf)
ConnectProto(e, p, pr) == ProtocolDispose(ReadEntireBuffer(pr, e.holder), p)
ConnectSock(e, p, sk) == SocketPause(sk, e.socket)

\* dispose() without its disposed check
ExtensionHostDispose_Unguarded(d) ==
  /\ eh' = [eh EXCEPT ![d].disposed = TRUE, ![d].ends = @ + 1]
  /\ sock' = SocketEnd(sock, eh[d].socket)

\* ExtensionHost.dispose(): once only; ends the supervisor's stored socket
\* and kills the worker, if there is one
ExtensionHostDispose(d) ==
  IF eh[d].disposed
  THEN UNCHANGED <<eh, sock>>
  ELSE /\ eh' = [eh EXCEPT ![d].disposed = TRUE, ![d].ends = @ + 1]
       /\ sock' = SocketEnd(sock, eh[d].socket)

\* the worker table after dispose() of supervisor d, starting from pcs
Kill(d, pcs) ==
  IF eh[d].disposed \/ eh[d].proc = 0 THEN pcs
  ELSE [pcs EXCEPT ![eh[d].proc].killed = @ + 1]

\* reconnect() as it would be if it handed off the supervisor's stored socket
ExtensionHostReconnect_StoredSocket(d, p, debugPort, pr0) ==
  LET e == eh[d] IN
  IF e.proc = 0
  THEN /\ proto' = pr0
       /\ UNCHANGED <<sent, sock, eh, pendingSend>>
  ELSE /\ sent' = SendControl(sent, pr0, p, DebugPortMessage(debugPort))
       /\ proto' = ConnectProto(e, p, pr0)
       /\ sock' = ConnectSock(e, p, sock)
       /\ eh' = [eh EXCEPT ![d].holder = p]
       /\ pendingSend' = pendingSend \cup
            {[eh |-> d, ws |-> p, socket |-> e.socket, proc |-> e.proc,
              initialDataChunk |-> ConnectChunk(e, p, pr0),
              permessageDeflate |-> holder[p].permessageDeflate]}

\* ExtensionHost.reconnect(protocolHolder, socket, debugPort) up to the
\* `await drain()` of sendExthostIpcSocket
ExtensionHostReconnect(d, p, debugPort, pr0) ==
  LET e == eh[d] IN
  IF e.proc = 0
  THEN \* the async function rejects; nothing catches it, nothing is sent
       /\ proto' = pr0
       /\ UNCHANGED <<sent, sock, eh, pendingSend>>
  ELSE /\ sent' = SendControl(sent, pr0, p, DebugPortMessage(debugPort))
       /\ proto' = ConnectProto(e, p, pr0)
       /\ sock' = ConnectSock(e, p, sock)
       /\ eh' = [eh EXCEPT ![d].holder = p]
       /\ pendingSend' = pendingSend \cup
            {[eh |-> d, ws |-> p, socket |-> p, proc |-> e.proc,
              initialDataChunk |-> ConnectChunk(e, p, pr0),
              permessageDeflate |-> holder[p].permessageDeflate]}

\* the extension-host case as it would be without the `return` of its first abort
ExtensionHostPath_NoReturn(p, port, pr0) ==
  LET t == holder[p].token
      d == ext[t]
  IN
  IF d = 0 /\ holder[p].reconnection
  THEN /\ AbortWebSocketConnection(p, NoPrevious, pr0)
       /\ nDetails' = nDetails + 1
       /\ details' = [details EXCEPT ![nDetails + 1] =
            [holder |-> p, port |-> port, brk |-> ArgsBreak(p), extensionHost |-> FALSE,
             dropped |-> FALSE]]
       /\ ext' = [ext EXCEPT ![t] = nDetails + 1]
       /\ pendingStart' = pendingStart \cup
            {[holder |-> p, details |-> nDetails + 1, io |-> (port = 0), seen |-> {}]}
       /\ UNCHANGED <<sock, eh, pendingSend>>
  ELSE IF d # 0
  THEN IF ~details[d].extensionHost
       THEN /\ AbortWebSocketConnection(p, NoExtHost, pr0)
            /\ UNCHANGED <<sock, ext, nDetails, details, eh, pendingStart, pendingSend>>
       ELSE /\ ExtensionHostReconnect(d, p,
                 IF details[d].port > 0 THEN details[d].port ELSE 0, pr0)
            /\ UNCHANGED <<ext, nDetails, details, pendingStart, abortDrain>>
  ELSE /\ nDetails' = nDetails + 1
       /\ details' = [details EXCEPT ![nDetails + 1] =
            [holder |-> p, port |-> port, brk |-> ArgsBreak(p), extensionHost |-> FALSE,
             dropped |-> FALSE]]
       /\ ext' = [ext EXCEPT ![t] = nDetails + 1]
       /\ pendingStart' = pendingStart \cup
            {[holder |-> p, details |-> nDetails + 1, io |-> (port = 0), seen |-> {}]}
       /\ proto' = pr0
       /\ UNCHANGED <<sent, sock, eh, pendingSend, abortDrain>>

\* the extension-host case as it would be if the abort for an entry without a
\* supervisor also dropped the entry
ExtensionHostPath_AbortDropsEntry(p, port, pr0) ==
  LET t == holder[p].token
      d == ext[t]
  IN
  IF d = 0 /\ holder[p].reconnection
  THEN /\ AbortWebSocketConnection(p, NoPrevious, pr0)
       /\ UNCHANGED <<sock, ext, nDetails, details, eh, pendingStart, pendingSend>>
  ELSE IF d # 0
  THEN IF ~details[d].extensionHost
       THEN /\ AbortWebSocketConnection(p, NoExtHost, pr0)
            /\ ext' = [ext EXCEPT ![t] = 0]
            /\ UNCHANGED <<sock, nDetails, details, eh, pendingStart, pendingSend>>
       ELSE /\ ExtensionHostReconnect(d, p,
                 IF details[d].port > 0 THEN details[d].port ELSE 0, pr0)
            /\ UNCHANGED <<ext, nDetails, details, pendingStart, abortDrain>>
  ELSE /\ nDetails' = nDetails + 1
       /\ details' = [details EXCEPT ![nDetails + 1] =
            [holder |-> p, port |-> port, brk |-> ArgsBreak(p), extensionHost |-> FALSE,
             dropped |-> FALSE]]
       /\ ext' = [ext EXCEPT ![t] = nDetails + 1]
       /\ pendingStart' = pendingStart \cup
            {[holder |-> p, details |-> nDetails + 1, io |-> (port = 0), seen |-> {}]}
       /\ proto' = pr0
       /\ UNCHANGED <<sent, sock, eh, pendingSend, abortDrain>>

\* case ConnectionType.ExtensionHost up to the first suspension
ExtensionHostPath(p, port, pr0) ==
  LET t == holder[p].token
      d == ext[t]
  IN
  IF d = 0 /\ holder[p].reconnection
  THEN /\ AbortWebSocketConnection(p, NoPrevious, pr0)
       /\ UNCHANGED <<sock, ext, nDetails, details, eh, pendingStart, pendingSend>>
  ELSE IF d # 0
  THEN IF ~details[d].extensionHost
       THEN /\ AbortWebSocketConnection(p, NoExtHost, pr0)
            /\ UNCHANGED <<sock, ext, nDetails, details, eh, pendingStart, pendingSend>>
       ELSE /\ ExtensionHostReconnect(d, p,
                 IF details[d].port > 0 THEN details[d].port ELSE 0, pr0)
            /\ UNCHANGED <<ext, nDetails, details, pendingStart, abortDrain>>
  ELSE \* a fresh connection: store the details, then await validateDebugPort
       /\ nDetails' = nDetails + 1
       /\ details' = [details EXCEPT ![nDetails + 1] =
            [holder |-> p, port |-> port, brk |-> ArgsBreak(p), extensionHost |-> FALSE,
             dropped |-> FALSE]]
       /\ ext' = [ext EXCEPT ![t] = nDetails + 1]
       /\ pendingStart' = pendingStart \cup
            {[holder |-> p, details |-> nDetails + 1, io |-> (port = 0), seen |-> {}]}
       /\ proto' = pr0
       /\ UNCHANGED <<sent, sock, eh, pendingSend, abortDrain>>

\* what findFreePort can resolve to: a port nothing listens on, or 0 when it
\* gives up.  A worker forked with --inspect binds its port some time
\* between the fork and its first message.
FindFreePort ==
  {q \in Ports : \A w \in Conns :
     ~(procs[w].state = "running" /\ procs[w].ready /\ procs[w].port = q)}
  \cup {0}

\* the rest of the fresh extension-host path, after `await validateDebugPort`:
\* createInstance, setExtensionHost, start (connect, fork, listeners), ok
StartExtensionHost(h, found) ==
  /\ h \in pendingStart
  /\ h.io \/ found = 0
  /\ h.io => found \in FindFreePort
  /\ LET p == h.holder
         d == h.details
         port == IF h.io THEN found ELSE details[d].port
         e == [socket |-> p, holder |-> p, disposed |-> FALSE, proc |-> 0,
               readyListener |-> FALSE, initialDataChunk |-> << >>, ends |-> 0]
         snt1 == SendControl(sent, proto, p, DebugPortMessage(port))
         pr1 == ConnectProto(e, p, proto)
         w == nForks + 1
     IN \* the handlers still searching have seen this port given out
        /\ pendingStart' =
             {IF g.io /\ h.io /\ found > 0
              THEN [g EXCEPT !.seen = @ \cup {<<found, holder[p].token>>}]
              ELSE g : g \in pendingStart \ {h}}
        /\ details' = [details EXCEPT ![d].port = port, ![d].extensionHost = TRUE]
        /\ proto' = pr1
        /\ sock' = ConnectSock(e, p, sock)
        /\ nForks' = w
        /\ procs' = [procs EXCEPT ![w] =
             [state |-> "running", ready |-> FALSE, killed |-> 0,
              port |-> IF port > 0 THEN port ELSE Undef,
              brk |-> port > 0 /\ details[d].brk, errorAt |-> Undef,
              errors |-> 0]]
        /\ eh' = [eh EXCEPT ![d] =
             [e EXCEPT !.proc = w, !.readyListener = TRUE,
                       !.initialDataChunk = ConnectChunk(e, p, proto)]]
        /\ sent' = SendControl(snt1, pr1, p, OKMessage)
  /\ UNCHANGED <<nConns, holder, reqs, mgmt, connectEvents, ext, nDetails,
                 pendingSend, abortDrain, nEvents, ipcLog>>
  /\ UNCHANGED mgmtDisposed
  /\ UNCHANGED outsideVars

\* the listener as it would be if it stayed registered after the first READY
OnMessageReady_KeepsListener(w) ==
  /\ Macrotask
  /\ w <= nForks
  /\ procs[w].state = "running"
  /\ Inputs < MaxInputs
  /\ nEvents' = nEvents + 1
  /\ procs' = [procs EXCEPT ![w].ready = TRUE]
  /\ LET d == SupervisorOf(w) IN
       /\ pendingSend' = pendingSend \cup
            {[eh |-> d, ws |-> eh[d].holder, socket |-> eh[d].socket, proc |-> w,
              initialDataChunk |-> eh[d].initialDataChunk,
              permessageDeflate |-> holder[eh[d].holder].permessageDeflate]}
       /\ UNCHANGED eh
  /\ UNCHANGED <<nConns, holder, proto, sock, sent, reqs, mgmt, connectEvents,
                 ext, nDetails, details, nForks, pendingStart, abortDrain, ipcLog>>
  /\ UNCHANGED mgmtDisposed
  /\ UNCHANGED outsideVars

\* the listener as it would be if it removed itself without handing off
OnMessageReady_NoHandOff(w) ==
  /\ Macrotask
  /\ w <= nForks
  /\ procs[w].state = "running"
  /\ Inputs < MaxInputs
  /\ nEvents' = nEvents + 1
  /\ procs' = [procs EXCEPT ![w].ready = TRUE]
  /\ eh' = [eh EXCEPT ![SupervisorOf(w)].readyListener = FALSE]
  /\ UNCHANGED <<nConns, holder, proto, sock, sent, reqs, mgmt, connectEvents,
                 ext, nDetails, details, nForks, pendingStart, pendingSend,
                 abortDrain, ipcLog>>
  /\ UNCHANGED mgmtDisposed
  /\ UNCHANGED outsideVars

\* the worker's message listener onMessageReadyListener
OnMessageReady(w) ==
  /\ Macrotask
  /\ w <= nForks
  /\ procs[w].state = "running"
  /\ Inputs < MaxInputs
  /\ nEvents' = nEvents + 1
  /\ procs' = [procs EXCEPT ![w].ready = TRUE]
  /\ LET d == SupervisorOf(w) IN
       IF eh[d].readyListener
       THEN /\ eh' = [eh EXCEPT ![d].readyListener = FALSE]
            /\ pendingSend' = pendingSend \cup
                 {[eh |-> d, ws |-> eh[d].holder, socket |-> eh[d].socket, proc |-> w,
                   initialDataChunk |-> eh[d].initialDataChunk,
                   permessageDeflate |-> holder[eh[d].holder].permessageDeflate]}
       ELSE UNCHANGED <<eh, pendingSend>>
  /\ UNCHANGED <<nConns, holder, proto, sock, sent, reqs, mgmt, connectEvents,
                 ext, nDetails, details, nForks, pendingStart, abortDrain, ipcLog>>
  /\ UNCHANGED mgmtDisposed
  /\ UNCHANGED outsideVars

\* sendExthostIpcSocket after `await webSocketNodeSocket.drain()`
SendExthostIpcSocket(s) ==
  /\ Macrotask
  /\ s \in pendingSend
  /\ pendingSend' = pendingSend \ {s}
  /\ ipcLog' = Append(ipcLog,
       [type |-> "VSCODE_EXTHOST_IPC_SOCKET",
        eh |-> s.eh,
        to |-> s.proc,
        socket |-> s.socket,
        initialDataChunk |-> s.initialDataChunk,
        skipWebSocketFrames |-> holder[eh[s.eh].holder].skipWebSocketFrames,
        permessageDeflate |-> s.permessageDeflate,
        inflateBytes |-> Base64(RecordedInflateBytes(s.ws))])
  /\ UNCHANGED <<nConns, holder, proto, sock, sent, reqs, mgmt, connectEvents,
                 ext, nDetails, details, eh, nForks, procs, pendingStart, abortDrain,
                 nEvents>>
  /\ UNCHANGED mgmtDisposed
  /\ UNCHANGED outsideVars

\* extensionHostProcess.on('exit'): the worker is gone; dispose()
OnExit(w) ==
  /\ Macrotask
  /\ Inputs < MaxInputs
  /\ nEvents' = nEvents + 1
  /\ w <= nForks
  /\ procs[w].state = "running"
  /\ ExtensionHostDispose(SupervisorOf(w))
  /\ procs' = [Kill(SupervisorOf(w), procs) EXCEPT ![w].state = "exited"]
  /\ UNCHANGED <<nConns, holder, proto, sent, reqs, mgmt, connectEvents, ext,
                 nDetails, details, nForks, pendingStart, pendingSend, abortDrain,
                 ipcLog>>
  /\ UNCHANGED mgmtDisposed
  /\ UNCHANGED outsideVars

\* extensionHostProcess.on('error'): dispose(); the worker may still run
OnError(w) ==
  /\ Macrotask
  /\ Inputs < MaxInputs
  /\ nEvents' = nEvents + 1
  /\ w <= nForks
  /\ procs[w].state = "running"
  /\ ExtensionHostDispose(SupervisorOf(w))
  /\ procs' = [Kill(SupervisorOf(w), procs) EXCEPT
       ![w].errorAt = IF @ = Undef /\ ~procs[w].ready THEN Len(ipcLog) ELSE @,
       ![w].errors = @ + 1]
  /\ UNCHANGED <<nConns, holder, proto, sent, reqs, mgmt, connectEvents, ext,
                 nDetails, details, nForks, pendingStart, pendingSend, abortDrain,
                 ipcLog>>
  /\ UNCHANGED mgmtDisposed
  /\ UNCHANGED outsideVars

\* ExtensionHostReconnectionDetails.dispose(): the supervisor is disposed and
\* the listener of onDidClientDisconnect deletes the entry of the holder's token
DetailsDispose(d) ==
  /\ Macrotask
  /\ Inputs < MaxInputs
  /\ nEvents' = nEvents + 1
  /\ d <= nDetails
  /\ details[d].extensionHost \/ ext[holder[details[d].holder].token] # 0
  /\ IF details[d].extensionHost
     THEN ExtensionHostDispose(d) /\ procs' = Kill(d, procs)
     ELSE UNCHANGED <<eh, sock, procs>>
  /\ details' =
       [x \in Conns |->
          [details[x] EXCEPT
             !.extensionHost = IF x = d THEN FALSE ELSE @,
             !.dropped = IF x = ext[holder[details[d].holder].token] THEN TRUE ELSE @]]
  /\ ext' = [ext EXCEPT ![holder[details[d].holder].token] = 0]
  /\ UNCHANGED <<nConns, holder, proto, sent, reqs, mgmt, connectEvents,
                 nDetails, nForks, pendingStart, pendingSend, abortDrain, ipcLog>>
  /\ UNCHANGED mgmtDisposed
  /\ UNCHANGED outsideVars

\* a socket loss as it would be if a close listener disposed the session
SocketClose_Disposes(c) ==
  /\ Macrotask
  /\ Inputs < MaxInputs
  /\ nEvents' = nEvents + 1
  /\ c <= nConns
  /\ ~sock[c].peerClosed
  /\ LET owners == {d \in Conns : d <= nDetails /\ eh[d].socket = c /\ ~eh[d].disposed}
     IN /\ sock' = [sock EXCEPT ![c].peerClosed = TRUE]
        /\ eh' = [d \in Conns |-> IF d \in owners THEN [eh[d] EXCEPT !.disposed = TRUE]
                                  ELSE eh[d]]
        /\ procs' = [w \in Conns |->
             IF \E d \in owners : eh[d].proc = w
             THEN [procs[w] EXCEPT !.killed = @ + 1] ELSE procs[w]]
        /\ ext' = [t \in Tokens |->
             IF ext[t] \in owners THEN 0 ELSE ext[t]]
  /\ UNCHANGED <<nConns, holder, proto, sent, reqs, abortDrain, mgmt, connectEvents,
                 nDetails, details, nForks, pendingStart, pendingSend, ipcLog>>
  /\ UNCHANGED mgmtDisposed
  /\ UNCHANGED outsideVars

\* the client closes or loses the socket of connection c; the broker has no
\* listener on it
SocketClose(c) ==
  /\ Macrotask
  /\ Inputs < MaxInputs
  /\ nEvents' = nEvents + 1
  /\ c <= nConns
  /\ ~sock[c].peerClosed
  /\ sock' = [sock EXCEPT ![c].peerClosed = TRUE]
  /\ UNCHANGED <<nConns, holder, proto, sent, reqs, abortDrain>>
  /\ UNCHANGED brokerVars
  /\ UNCHANGED mgmtDisposed
  /\ UNCHANGED outsideVars

\* the commit comparison (logged only) and the switch on
\* desiredConnectionType, up to the first suspension
ConnectionTypeSwitch_AbortOnMismatch(p, kind, port, extra, commit) ==
  LET pr0 == [proto EXCEPT ![p].buf = @ \o extra] IN
  IF commit # ProductCommit
  THEN /\ AbortWebSocketConnection(p, "Client is not matching server", pr0)
       /\ UNCHANGED <<sock, mgmt, connectEvents, ext, nDetails, details, eh,
                      pendingStart, pendingSend>>
  ELSE CASE kind = "Management" ->
              /\ ManagementPath(p, pr0)
              /\ UNCHANGED <<ext, nDetails, details, eh, pendingStart, pendingSend>>
         [] kind = "ExtensionHost" ->
              /\ ExtensionHostPath(p, port, pr0)
              /\ UNCHANGED <<mgmt, connectEvents>>
         [] kind = "Tunnel" ->
              /\ TunnelPath(p, pr0)
              /\ UNCHANGED <<ext, nDetails, details, eh, pendingStart, pendingSend>>

\* the switch as it would be if both kinds shared one table: a management
\* request takes the token's place in the other
ConnectionTypeSwitch_SharedTable(p, kind, port, extra, commit) ==
  LET pr0 == [proto EXCEPT ![p].buf = @ \o extra] IN
  CASE kind = "Management" ->
         /\ ManagementPath(p, pr0)
         /\ ext' = [ext EXCEPT ![holder[p].token] = 0]
         /\ UNCHANGED <<nDetails, details, eh, pendingStart, pendingSend>>
    [] kind = "ExtensionHost" ->
         /\ ExtensionHostPath(p, port, pr0)
         /\ UNCHANGED <<mgmt, connectEvents>>
    [] kind = "Tunnel" ->
         /\ TunnelPath(p, pr0)
         /\ UNCHANGED <<ext, nDetails, details, eh, pendingStart, pendingSend>>

ConnectionTypeSwitch(p, kind, port, extra, commit) ==
  LET pr0 == [proto EXCEPT ![p].buf = @ \o extra]
      mismatch == commit # ProductCommit   \* logger.error, nothing else
  IN CASE kind = "Management" ->
            /\ ManagementPath(p, pr0)
            /\ UNCHANGED <<ext, nDetails, details, eh, pendingStart, pendingSend>>
       [] kind = "ExtensionHost" ->
            /\ ExtensionHostPath(p, port, pr0)
            /\ UNCHANGED <<mgmt, connectEvents>>
       [] kind = "Tunnel" ->
            /\ TunnelPath(p, pr0)
            /\ UNCHANGED <<ext, nDetails, details, eh, pendingStart, pendingSend>>

\* a connectionType control message reaches holder p's listener; `extra` are
\* the bytes buffered behind it
HandleConnectionTypeRequest(p, kind, port, extra, commit) ==
  /\ CanReceive(p)
  /\ reqs' = [reqs EXCEPT ![p] = Append(@,
       Request("connectionType", kind, port, extra, commit,
               IF kind = "Management" THEN mgmt[holder[p].token]
               ELSE IF kind = "ExtensionHost" THEN ext[holder[p].token] ELSE 0,
               Len(sent[p])))]
  /\ kind # "ExtensionHost" => port = Undef
  /\ ConnectionTypeSwitch(p, kind, port, extra, commit)
  /\ UNCHANGED <<nConns, holder, nForks, procs, nEvents, ipcLog>>
  /\ UNCHANGED mgmtDisposed
  /\ UNCHANGED outsideVars

\* the callbacks the event loop can run, for clients that name one of
\* `commits` and leave one of `bufs` buffered behind a connectionType request
Steps(commits, bufs) ==
  \/ \E tok \in QueryTokens, r \in BOOLEAN :
       Handle(tok, r, ConnFlags(nConns + 1)[1], ConnFlags(nConns + 1)[2])
  \/ \E p \in Conns : HandleAuthRequest(p)
  \/ \E p \in Conns, k \in Kinds, port \in ReqPorts, extra \in bufs,
        commit \in commits :
       HandleConnectionTypeRequest(p, k, port, extra, commit)
  \/ \E a \in abortDrain : AbortDrained(a)
  \/ \E h \in pendingStart, found \in Ports \cup {0} : StartExtensionHost(h, found)
  \/ \E w \in Conns : OnMessageReady(w)
  \/ \E s \in pendingSend : SendExthostIpcSocket(s)
  \/ \E w \in Conns : OnExit(w)
  \/ \E w \in Conns : OnError(w)
  \/ \E d \in Conns : DetailsDispose(d)
  \/ \E t \in Tokens : ManagementDispose(t)
  \/ \E c \in Conns : SocketClose(c)

Next == Steps({ProductCommit}, BufVals)

Spec == Init /\ [][Next]_vars

\* what the event loop guarantees: the continuation of `await drain()` in
\* sendExthostIpcSocket runs once the frame layer has drained, and the
\* continuation of an already-resolved `await validateDebugPort` runs
DrainCompletes == \E s \in pendingSend : SendExthostIpcSocket(s)
ResolvedAwaitResumes == \E h \in pendingStart : ~h.io /\ StartExtensionHost(h, 0)

HandOffSpec ==
  Init /\ [][Next]_vars /\ WF_vars(DrainCompletes) /\ WF_vars(ResolvedAwaitResumes)

\* the broker once connection 1 (token T1, reconnection=false) has opened a
\* management session: its holder is the entry of T1 and ok went out; the
\* inputs and the requests handled are counted from here
ResidentInit ==
  /\ nConns = 1
  /\ holder = [c \in Conns |->
                 IF c = 1
                 THEN [token |-> "T1", reconnection |-> FALSE,
                       permessageDeflate |-> ConnFlags(1)[1],
                       skipWebSocketFrames |-> ConnFlags(1)[2]]
                 ELSE NoHolder]
  /\ proto = [c \in Conns |-> IF c = 1 THEN [NoProto EXCEPT !.socket = 1] ELSE NoProto]
  /\ sock = [c \in Conns |->
               IF c = 1
               THEN [NoSock EXCEPT !.state = "open", !.token = "T1",
                                   !.wrote = << "HTTP/1.1 101 Switching Protocols" >>]
               ELSE NoSock]
  /\ sent = [c \in Conns |->
               IF c = 1 THEN << [msg |-> OKMessage, live |-> TRUE] >> ELSE << >>]
  /\ reqs = [c \in Conns |-> << >>]
  /\ mgmt = [t \in Tokens |-> IF t = "T1" THEN 1 ELSE 0]
  /\ connectEvents = << [token |-> "T1", protocol |-> 1] >>
  /\ ext = [t \in Tokens |-> 0]
  /\ nDetails = 0
  /\ details = [d \in Conns |-> NoDetails]
  /\ eh = [d \in Conns |-> NoEh]
  /\ nForks = 0
  /\ procs = [w \in Conns |-> NoProc]
  /\ pendingStart = {}
  /\ pendingSend = {}
  /\ abortDrain = {}
  /\ nEvents = 0
  /\ ipcLog = << >>
  /\ mgmtDisposed = {}
  /\ upgradeReq = UpgradeRequest(NoField, << >>)
  /\ upgradeOut = NoResponse
  /\ uriRun = UriRun(NoField, NoUri)
  /\ main = Main(NoField, "ENOSPC", FALSE)
  /\ ServicesIdle

ResidentSpec == ResidentInit /\ [][Next]_vars

\* upgradeSocket applied to upgradeReq
UpgradeSocketStep ==
  /\ upgradeOut = NoResponse
  /\ upgradeOut' = UpgradeSocket(upgradeReq)
  /\ UNCHANGED <<nConns, holder, proto, sock, sent, reqs, abortDrain, nEvents,
                 upgradeReq, mgmtDisposed, uriRun, main>>
  /\ UNCHANGED brokerVars
  /\ UNCHANGED serviceVars

\* the Sec-WebSocket-Extensions headers a client sends: none, one offer or two
PmdParams ==
  { << >>,
    << ";", "client_max_window_bits" >>,
    << ";", "client_max_window_bits", "=", "10" >>,
    << ";", "client_max_window_bits", "=", "15" >>,
    << ";", "server_no_context_takeover" >>,
    << ";", "client_max_window_bits", ";", "server_max_window_bits", "=", "12" >>,
    << ";", "server_no_context_takeover", ";", "client_max_window_bits" >> }
Offers ==
  {<< "permessage-deflate" >> \o ps : ps \in PmdParams}
  \cup {<< "x-webkit-deflate-frame" >>, << "foo", ";", "client_max_window_bits" >>}
ExtensionHeaders ==
  {<< >>} \cup Offers \cup {a \o << "," >> \o b : a \in Offers, b \in Offers}

UpgradeInit ==
  /\ BrokerInit
  /\ upgradeReq \in {UpgradeRequest(k, x) : k \in KeyHeaders, x \in ExtensionHeaders}
  /\ upgradeOut = NoResponse
  /\ uriRun = UriRun(NoField, NoUri)
  /\ main = Main(NoField, "ENOSPC", FALSE)
  /\ ServicesIdle

UpgradeSpec == UpgradeInit /\ [][UpgradeSocketStep]_vars

\* the transformer's three functions applied to uriRun.uri, and each of
\* transformIncoming and transformOutgoing applied to the other's result
Transform ==
  /\ ~uriRun.applied
  /\ LET a == uriRun.remoteAuthority
         u == uriRun.uri
     IN uriRun' = [uriRun EXCEPT
          !.applied = TRUE,
          !.incoming = TransformIncoming(u),
          !.outgoing = TransformOutgoing(a, u),
          !.outgoingOfIncoming = TransformOutgoing(a, TransformIncoming(u)),
          !.incomingOfOutgoing = TransformIncoming(TransformOutgoing(a, u)),
          !.outgoingScheme = TransformOutgoingScheme(u.scheme)]
  /\ UNCHANGED <<nConns, holder, proto, sock, sent, reqs, abortDrain, nEvents,
                 mgmtDisposed, main>>
  /\ UNCHANGED brokerVars
  /\ UNCHANGED upgradeVars
  /\ UNCHANGED serviceVars

UriInit ==
  /\ BrokerInit
  /\ upgradeReq = UpgradeRequest(NoField, << >>)
  /\ upgradeOut = NoResponse
  /\ uriRun \in {UriRun(a, u) : a \in Authorities, u \in Uris}
  /\ main = Main(NoField, "ENOSPC", FALSE)
  /\ ServicesIdle

UriSpec == UriInit /\ [][Transform]_vars

\* the startup leaves everything but `main` alone
StartupFrame ==
  /\ UNCHANGED <<nConns, holder, proto, sock, sent, reqs, abortDrain, nEvents,
                 mgmtDisposed, uriRun>>
  /\ UNCHANGED brokerVars
  /\ UNCHANGED upgradeVars
  /\ UNCHANGED serviceVars

\* an error thrown out of CheInstantiationServiceSetup.startup rejects doStart
Throw(m) == [m EXCEPT !.pc = "catch", !.thrown = Append(@, m.pc)]

\* the catch of startup(): quit(accessor, error) logs and startup goes on to
\* return the instantiation service
Quit(m, expected) ==
  [m EXCEPT !.pc = "doStart",
            !.thrown = Append(@, m.pc),
            !.logged = Append(@, IF expected THEN "trace: Terminating..."
                                 ELSE "error: stack")]

\* startup() before its try block: resolveArgs, then createServices
ResolveArgs ==
  /\ main.pc = "resolveArgs"
  /\ main' = IF main.throwsAt = "resolveArgs" THEN Throw(main)
             ELSE [main EXCEPT !.pc = "createServices"]
  /\ StartupFrame

CreateServices ==
  /\ main.pc = "createServices"
  /\ main' = IF main.throwsAt = "createServices" THEN Throw(main)
             ELSE [main EXCEPT !.pc = "initServices"]
  /\ StartupFrame

\* await initServices; on an error handleStartupDataDirError, rethrow, and
\* the outer catch
InitServices ==
  /\ main.pc = "initServices"
  /\ main' =
       IF main.throwsAt = "initServices"
       THEN Quit([main EXCEPT !.logged =
                    IF main.code \in {"EACCES", "EPERM"}
                    THEN Append(@, "error: Unable to write program user data.")
                    ELSE @],
                 FALSE)
       ELSE [main EXCEPT !.pc = "claimInstance"]
  /\ StartupFrame

\* claimInstance: with --status it warns and throws an ExpectedError
ClaimInstance ==
  /\ main.pc = "claimInstance"
  /\ main' =
       IF main.status
       THEN Quit([main EXCEPT !.logged = Append(@, "warn: --status")], TRUE)
       ELSE [main EXCEPT !.pc = "application"]
  /\ StartupFrame

\* createInstance(CheApplication, ...).startup(), awaited inside the try
ApplicationStartup ==
  /\ main.pc = "application"
  /\ main' = IF main.throwsAt = "application" THEN Quit(main, FALSE)
             ELSE [main EXCEPT !.pc = "doStart"]
  /\ StartupFrame

\* doStart after startup() returned: httpServer.start(); Main.start returns
\* true
HttpServerStart ==
  /\ main.pc = "doStart"
  /\ main' = [main EXCEPT !.pc = "started", !.httpServer = TRUE]
  /\ StartupFrame

\* the catch of Main.start returns false and startCheCode calls
\* process.exit(1)
MainCatch ==
  /\ main.pc = "catch"
  /\ main' = [main EXCEPT !.pc = "exited", !.exitCode = 1,
                          !.logged = Append(@, "console.error: Unable to start")]
  /\ StartupFrame

StartupNext ==
  \/ ResolveArgs
  \/ CreateServices
  \/ InitServices
  \/ ClaimInstance
  \/ ApplicationStartup
  \/ HttpServerStart
  \/ MainCatch

StartupInit ==
  /\ BrokerInit
  /\ upgradeReq = UpgradeRequest(NoField, << >>)
  /\ upgradeOut = NoResponse
  /\ uriRun = UriRun(NoField, NoUri)
  /\ main \in {Main(t, c, st) : t \in ThrowPoints, c \in ErrorCodes, st \in BOOLEAN}
  /\ ServicesIdle

StartupSpec == StartupInit /\ [][StartupNext]_vars

\* ------------------------------------------------- static files: serveFile
ServiceFrame ==
  /\ UNCHANGED <<nConns, holder, proto, sock, sent, reqs, abortDrain, nEvents,
                 mgmtDisposed, uriRun, main>>
  /\ UNCHANGED brokerVars
  /\ UNCHANGED upgradeVars

\* res.writeHead(status, headers)
WriteHead(m, status, headers) ==
  [m EXCEPT !.writeHead = Append(@, status), !.headers = headers]

\* HttpMessage.error(errorCode): writeHead with text/plain, end(undefined)
HttpError(m, errorCode) ==
  [WriteHead(m, errorCode, [contentType |-> "text/plain", etag |-> NoField])
     EXCEPT !.ended = TRUE, !.pc = "done"]

\* serveFile up to its await: path.normalize and the call of fs.stat
ServeFile ==
  /\ http.pc = "serveFile"
  /\ http' = [http EXCEPT !.pc = "stat"]
  /\ UNCHANGED <<fsChannel, fileStream>>
  /\ ServiceFrame

\* served without looking at If-None-Match
ServeFileStatted_NoValidator ==
  /\ http.pc = "stat"
  /\ http' =
       IF http.file = NoStat
       THEN HttpError([http EXCEPT !.logged = @ + 1], 404)
       ELSE [WriteHead(http, 200, [contentType |-> "text/plain",
                                   etag |-> Etag(http.file)])
               EXCEPT !.pc = "pipe"]
  /\ UNCHANGED <<fsChannel, fileStream>>
  /\ ServiceFrame

\* serveFile after `await stat`: the catch when stat rejected, else the
\* validator check, the headers and writeHead(200)
ServeFileStatted ==
  /\ http.pc = "stat"
  /\ http' =
       IF http.file = NoStat
       THEN HttpError([http EXCEPT !.logged = @ + 1], 404)
       ELSE LET etag == Etag(http.file)
                text == TEXT_MIME_TYPES(Extname(http.filePath))
                media == GetMediaMime(http.filePath)
                contentType == IF text # NoField THEN text
                               ELSE IF media # NoField THEN media
                               ELSE "text/plain"
            IN IF http.ifNoneMatch = etag
               THEN HttpError(http, 304)
               ELSE [WriteHead(http, 200, [contentType |-> contentType,
                                           etag |-> etag])
                       EXCEPT !.pc = "pipe"]
  /\ UNCHANGED <<fsChannel, fileStream>>
  /\ ServiceFrame

\* fs.createReadStream(filePath).pipe(res): the file is read into the
\* response and the response ended, or the stream emits an error nobody
\* listens to (the file went away after stat) and the response stays open
ReadStreamPipe ==
  /\ http.pc = "pipe"
  /\ \E readable \in BOOLEAN :
       http' = IF readable
               THEN [http EXCEPT !.pc = "done", !.reads = @ + 1,
                                 !.body = << http.file.size >>, !.ended = TRUE]
               ELSE [http EXCEPT !.pc = "streamError", !.reads = @ + 1]
  /\ UNCHANGED <<fsChannel, fileStream>>
  /\ ServiceFrame

ServeNext ==
  \/ ServeFile
  \/ ServeFileStatted
  \/ ReadStreamPipe

ServeInit ==
  /\ BrokerInit
  /\ upgradeReq = UpgradeRequest(NoField, << >>)
  /\ upgradeOut = NoResponse
  /\ uriRun = UriRun(NoField, NoUri)
  /\ main = Main(NoField, "ENOSPC", FALSE)
  /\ http \in {HttpMessage(f, st, h) :
                 f \in FilePaths, st \in Stats \cup {NoStat}, h \in IfNoneMatchHeaders}
  /\ fsChannel = RemoteFileSystemChannel
  /\ fileStream = ReadFileStream(<< >>, FALSE)

ServeSpec == ServeInit /\ [][ServeNext]_vars

\* ------------------------------------- remote filesystem: watch / unwatch
\* listen(ctx, 'filechange', [session]) and the channel server's subscription
\* to the event returned: onFirstListenerAdd puts a new DiskFileSystemProvider
\* into fileWatchers under arg[0]
ListenFilechange(session) ==
  /\ Len(fsChannel.emitters) < MaxListen
  /\ fsChannel' = [fsChannel EXCEPT
       !.emitters = Append(@, [arg0 |-> session, listeners |-> 1]),
       !.providers = Append(@, [disposed |-> 0]),
       !.fileWatchers[session] = Len(fsChannel.providers) + 1,
       !.last = [command |-> "listen", session |-> session, req |-> 0]]
  /\ UNCHANGED <<http, fileStream>>
  /\ ServiceFrame

\* the subscription to emitter e is disposed: onLastListenerRemove disposes
\* the provider found under arg[0], if any, and deletes the key
DisposeFilechange(e) ==
  /\ e \in DOMAIN fsChannel.emitters
  /\ fsChannel.emitters[e].listeners = 1
  /\ LET session == fsChannel.emitters[e].arg0
         w == fsChannel.fileWatchers[session]
     IN fsChannel' = [fsChannel EXCEPT
          !.emitters[e].listeners = 0,
          !.providers = IF w = 0 THEN @ ELSE [@ EXCEPT ![w].disposed = @ + 1],
          !.fileWatchers[session] = 0,
          !.last = [command |-> "dispose", session |-> session, req |-> 0]]
  /\ UNCHANGED <<http, fileStream>>
  /\ ServiceFrame

\* call(ctx, 'watch', [session, req, resource, opts])
Watch(session, req) ==
  /\ fsChannel.calls < MaxCalls
  /\ LET watchKey == WatchKey(session, req)
         fileWatcher == fsChannel.fileWatchers[watchKey]
     IN IF fileWatcher # 0
        THEN /\ Len(fsChannel.watches) < MaxWatch
             /\ fsChannel' = [fsChannel EXCEPT
                  !.watches = Append(@, [provider |-> fileWatcher, disposed |-> 0]),
                  !.fileWatcherDisposables[watchKey] = Len(fsChannel.watches) + 1,
                  !.calls = @ + 1,
                  !.last = [command |-> "watch", session |-> session, req |-> req]]
        ELSE fsChannel' = [fsChannel EXCEPT
                  !.calls = @ + 1,
                  !.last = [command |-> "watch", session |-> session, req |-> req]]
  /\ UNCHANGED <<http, fileStream>>
  /\ ServiceFrame

\* call(ctx, 'unwatch', [session, req])
Unwatch(session, req) ==
  /\ fsChannel.calls < MaxCalls
  /\ LET unwatchKey == WatchKey(session, req)
         toUnwatchDisposable == fsChannel.fileWatcherDisposables[unwatchKey]
     IN IF toUnwatchDisposable # 0
        THEN fsChannel' = [fsChannel EXCEPT
               !.fileWatcherDisposables[unwatchKey] = 0,
               !.watches[toUnwatchDisposable].disposed = @ + 1,
               !.calls = @ + 1,
               !.last = [command |-> "unwatch", session |-> session, req |-> req]]
        ELSE fsChannel' = [fsChannel EXCEPT
               !.calls = @ + 1,
               !.last = [command |-> "unwatch", session |-> session, req |-> req]]
  /\ UNCHANGED <<http, fileStream>>
  /\ ServiceFrame

WatchNext ==
  \/ \E se \in Sessions : ListenFilechange(se)
  \/ \E e \in 1..MaxListen : DisposeFilechange(e)
  \/ \E se \in Sessions, r \in WatchReqs : Watch(se, r)
  \/ \E se \in Sessions, r \in WatchReqs : Unwatch(se, r)

WatchSpec == Init /\ [][WatchNext]_vars

\* ------------------------------------ remote filesystem: readFileStream
\* emitter.fire(payload): every listener gets it; a disposed emitter has none
Fire(m, payload) ==
  [m EXCEPT !.delivered =
     [l \in Subscribers |-> IF l \in m.listeners THEN Append(@[l], payload) ELSE @[l]]]

\* cancellationTokenSource.cancel(): a read under way stops
Cancel(m) ==
  [m EXCEPT !.cancelled = TRUE,
            !.read = IF @ = "reading" THEN "cancelled" ELSE @]

\* listen(ctx, 'readFileStream', ...): token source, readFileStream, emitter,
\* listenStream; the channel server subscribes to the event returned
ListenReadFileStream ==
  /\ fileStream.pc = "listen"
  /\ fileStream' = [fileStream EXCEPT !.pc = "open", !.read = "reading",
                                      !.subscribed = 1, !.listeners = {1}]
  /\ UNCHANGED <<http, fsChannel>>
  /\ ServiceFrame

\* one more listener on the event
Subscribe ==
  /\ fileStream.pc = "open"
  /\ ~fileStream.emitterDisposed
  /\ fileStream.subscribed < MaxSubscribers
  /\ fileStream' = [fileStream EXCEPT !.subscribed = @ + 1,
                                      !.listeners = @ \cup {fileStream.subscribed + 1}]
  /\ UNCHANGED <<http, fsChannel>>
  /\ ServiceFrame

\* every removal of a listener cancels the read
Unsubscribe_CancelsAlways(l) ==
  /\ fileStream.pc \in {"open", "errored"}
  /\ l \in fileStream.listeners
  /\ fileStream' = Cancel([fileStream EXCEPT !.listeners = @ \ {l}])
  /\ UNCHANGED <<http, fsChannel>>
  /\ ServiceFrame

\* the listener l is removed; onLastListenerRemove when it was the last
Unsubscribe(l) ==
  /\ fileStream.pc \in {"open", "errored"}
  /\ l \in fileStream.listeners
  /\ LET m == [fileStream EXCEPT !.listeners = @ \ {l}]
     IN fileStream' = IF m.listeners = {} THEN Cancel(m) ELSE m
  /\ UNCHANGED <<http, fsChannel>>
  /\ ServiceFrame

\* the stream's data event: onData fires wrapData(data)
OnData ==
  /\ fileStream.read = "reading"
  /\ fileStream.pos < Len(fileStream.file)
  /\ ~(fileStream.fails /\ fileStream.pos = Len(fileStream.file) - 1)
  /\ fileStream' = Fire([fileStream EXCEPT !.pos = @ + 1],
                        DataPayload(fileStream.file[fileStream.pos + 1]))
  /\ UNCHANGED <<http, fsChannel>>
  /\ ServiceFrame

\* the stream's error event, of a read that failed or was cancelled: onError
\* fires the error
OnError_Stream ==
  /\ \/ fileStream.read = "cancelled" /\ fileStream.pc = "open"
     \/ /\ fileStream.read = "reading"
        /\ fileStream.fails
        /\ fileStream.pos >= Len(fileStream.file) - 1
  /\ fileStream' = Fire([fileStream EXCEPT !.pc = "errored",
                           !.read = IF @ = "reading" THEN "failed" ELSE @],
                        ErrorPayload)
  /\ UNCHANGED <<http, fsChannel>>
  /\ ServiceFrame

\* the stream's end event: onEnd fires 'end', disposes the emitter (which may
\* run onLastListenerRemove once more) and disposes the token source
OnEnd ==
  /\ \/ fileStream.pc = "errored"
     \/ /\ fileStream.pc = "open"
        /\ fileStream.read = "reading"
        /\ ~fileStream.fails
        /\ fileStream.pos = Len(fileStream.file)
  /\ \E hook \in BOOLEAN :
       LET fired == Fire(fileStream, EndPayload)
           ended == [fired EXCEPT !.pc = "closed",
                                  !.read = IF @ = "reading" THEN "ended" ELSE @,
                                  !.listeners = {},
                                  !.emitterDisposed = TRUE]
           hooked == IF hook THEN Cancel(ended) ELSE ended
       IN fileStream' = [hooked EXCEPT !.sourceDisposed = TRUE]
  /\ UNCHANGED <<http, fsChannel>>
  /\ ServiceFrame

StreamNext ==
  \/ ListenReadFileStream
  \/ Subscribe
  \/ \E l \in Subscribers : Unsubscribe(l)
  \/ OnData
  \/ OnError_Stream
  \/ OnEnd

StreamInit ==
  /\ BrokerInit
  /\ upgradeReq = UpgradeRequest(NoField, << >>)
  /\ upgradeOut = NoResponse
  /\ uriRun = UriRun(NoField, NoUri)
  /\ main = Main(NoField, "ENOSPC", FALSE)
  /\ http = NoHttpMessage
  /\ fsChannel = RemoteFileSystemChannel
  /\ fileStream \in {ReadFileStream(f, x) : f \in Files, x \in BOOLEAN}

StreamSpec == StreamInit /\ [][StreamNext]_vars

\* clients of any commit, with nothing buffered behind their requests
CommitNext == Steps(Commits, {<< >>})

CommitSpec == Init /\ [][CommitNext]_vars

\* ================================================================ properties
\* the requests handled on holder p, by position
ReqsOf(p) == DOMAIN reqs[p]

\* the reply to the request at position i of holder p, if any
Replied(p, i) == Len(sent[p]) > reqs[p][i].at
ReplyTo(p, i) == sent[p][reqs[p][i].at + 1]

\* holder p's connection is closed: the protocol is disposed and the socket is
\* destroyed, or is about to be once it has drained
Aborted(p) ==
  /\ proto[p].disposed
  /\ sock[p].state = "destroyed" \/ <<p, p>> \in abortDrain

\* this step handles a connectionType request of the given kind on holder p
Handles(p, kind) ==
  /\ Len(reqs'[p]) = Len(reqs[p]) + 1
  /\ reqs'[p][Len(reqs'[p])].type = "connectionType"
  /\ reqs'[p][Len(reqs'[p])].kind = kind

\* C1: a Management request on a reconnection=true connection whose token has
\* no management entry is answered by the error "Asking to reconnect but
\* provided token is unknown" and the connection is closed; no entry is made
\* for that connection, no client-connected event is emitted for it and no ok
\* reaches it afterwards.
C1_UnknownManagementReconnectAborts ==
  \A p \in Conns : \A i \in ReqsOf(p) :
    (reqs[p][i].kind = "Management" /\ holder[p].reconnection /\ reqs[p][i].found = 0)
    => /\ Replied(p, i)
       /\ ReplyTo(p, i) = [msg |-> ErrorMessage(UnknownToken), live |-> TRUE]
       /\ \A j \in DOMAIN sent[p] : j > reqs[p][i].at + 1 => ~sent[p][j].live
       /\ Aborted(p)
       /\ \A t \in Tokens : mgmt[t] # p
       /\ \A k \in DOMAIN connectEvents : connectEvents[k].protocol # p

C1_Witness ==
  \E p \in Conns : \E i \in ReqsOf(p) :
    /\ reqs[p][i].kind = "Management" /\ holder[p].reconnection /\ reqs[p][i].found = 0
    /\ sock[p].state = "destroyed"

\* C2: a Management request on a reconnection=false connection whose token has
\* no management entry is answered ok, the entry of the token holds that
\* connection's protocol and exactly one client-connected event exists for the
\* token; overall there is one event per inserted entry, carrying the
\* protocol of the entry (a reconnect emits none).
C2_FreshManagementConnect ==
  /\ \A p \in Conns : \A i \in ReqsOf(p) :
       (reqs[p][i].kind = "Management" /\ ~holder[p].reconnection /\ reqs[p][i].found = 0)
       => /\ Replied(p, i)
          /\ ReplyTo(p, i) = [msg |-> OKMessage, live |-> TRUE]
          /\ mgmt[holder[p].token] = p
          /\ Cardinality({k \in DOMAIN connectEvents :
                connectEvents[k].token = holder[p].token}) = 1
  /\ Len(connectEvents) = Cardinality({t \in Tokens : mgmt[t] # 0})
  /\ \A k \in DOMAIN connectEvents :
       connectEvents[k].protocol = mgmt[connectEvents[k].token]

\* a second connection has reconnected to a management session: one event only
C2_Witness ==
  \E p, q \in Conns :
    /\ p # q
    /\ \E t \in Tokens : mgmt[t] = p
    /\ \E i \in ReqsOf(q) : reqs[q][i].kind = "Management" /\ reqs[q][i].found = p
    /\ Len(connectEvents) = 1

\* this step is a management reconnect of connection p onto resident r
ManagementReconnectStep(p, r) ==
  /\ Handles(p, "Management")
  /\ r = mgmt[holder[p].token]
  /\ r # 0
  /\ r # p

ExtensionHostReconnectStep(p, d) ==
  /\ Handles(p, "ExtensionHost")
  /\ d = ext[holder[p].token]
  /\ d # 0
  /\ details[d].extensionHost
  /\ eh[d].proc # 0

\* the hand-offs this step queued
Queued == pendingSend' \ pendingSend

\* the handler h, suspended before this step, is still suspended after it
StillPending(h) ==
  \E g \in pendingStart' : g.holder = h.holder /\ g.details = h.details

\* C4: an extension-host reconnect forks nothing, leaves the entry of the
\* token and the worker of its supervisor as they were, and queues one
\* VSCODE_EXTHOST_IPC_SOCKET for that same worker carrying the reconnecting
\* connection's socket; every message sent goes, with the socket queued for
\* it, to the worker it was queued for, and a fork happens only on the fresh
\* path.
C4_ReconnectPreservesWorker ==
  [][/\ \A p, d \in Conns : ExtensionHostReconnectStep(p, d)
          => /\ nForks' = nForks
             /\ procs' = procs
             /\ ext' = ext
             /\ eh'[d].proc = eh[d].proc
             /\ Cardinality(Queued) = 1
             /\ \A s \in Queued : s.eh = d /\ s.socket = p /\ s.proc = eh[d].proc
     /\ Len(ipcLog') > Len(ipcLog)
          => \E s \in pendingSend :
               /\ ipcLog' = Append(ipcLog, ipcLog'[Len(ipcLog')])
               /\ ipcLog'[Len(ipcLog')].socket = s.socket
               /\ ipcLog'[Len(ipcLog')].to = s.proc
               /\ s.proc = eh[s.eh].proc
     /\ nForks' # nForks
          => /\ nForks' = nForks + 1
             /\ \E h \in pendingStart : ~StillPending(h) /\ eh[h.details].proc = 0]_vars

\* after one fork, the worker has been sent the sockets of two reconnects
C4_Witness ==
  /\ nForks = 1
  /\ \E i, j \in DOMAIN ipcLog :
       /\ i # j
       /\ ipcLog[i].to = 1 /\ ipcLog[j].to = 1
       /\ ipcLog[i].socket # ipcLog[j].socket
       /\ ipcLog[i].socket # eh[ipcLog[i].eh].socket
       /\ ipcLog[j].socket # eh[ipcLog[j].eh].socket

\* C5 as stated: on an extension-host reconnect the initialDataChunk queued
\* for the worker is the base64 of the bytes buffered on the reconnecting
\* connection's protocol, and it is the reconnecting connection's socket that
\* is paused.
C5_ReconnectChunkFromNewProtocol ==
  [][\A p, d \in Conns : ExtensionHostReconnectStep(p, d)
       => /\ \A s \in Queued :
               s.initialDataChunk =
                 Base64(proto[p].buf \o reqs'[p][Len(reqs'[p])].extra)
          /\ sock'[p].paused]_vars

\* the hand-offs logged for socket s
SentFor(s) == {i \in DOMAIN ipcLog : ipcLog[i].socket = s}

\* exactly one hand-off for socket s has been sent, or none yet and one is
\* queued behind the drain of its websocket
HandedOffOnce(s) ==
  \/ Cardinality(SentFor(s)) = 1 /\ \A q \in pendingSend : q.socket # s
  \/ /\ SentFor(s) = {}
     /\ \E q \in pendingSend : q.socket = s

\* connection p was accepted as a reconnect by supervisor d
AcceptedReconnect(p, d) ==
  \E i \in ReqsOf(p) :
    /\ reqs[p][i].kind = "ExtensionHost"
    /\ reqs[p][i].found = d
    /\ Replied(p, i)
    /\ ReplyTo(p, i).msg.type = NoField

C7_HandOffOnlyWhenAttached ==
  [][Len(ipcLog') > Len(ipcLog)
       => LET m == ipcLog'[Len(ipcLog')] IN
          /\ procs[m.to].ready
          /\ procs[m.to].state = "running"
          /\ ~eh[m.eh].disposed]_vars

\* C8: a step in which a client socket closes changes neither the workers,
\* nor the supervisors, nor the extension-host table; a worker is killed only
\* in a step that disposes its supervisor (its exit, its error, or dispose).
C8_WorkerOutlivesSocket ==
  [][/\ (\E c \in Conns : sock'[c].peerClosed /\ ~sock[c].peerClosed)
          => /\ procs' = procs
             /\ eh' = eh
             /\ ext' = ext
             /\ details' = details
     /\ \A w \in Conns : (w <= nForks /\ procs'[w].killed # procs[w].killed)
          => /\ ~eh[SupervisorOf(w)].disposed
             /\ eh'[SupervisorOf(w)].disposed
             /\ \A c \in Conns : sock'[c].peerClosed = sock[c].peerClosed]_vars

\* the hand-off is done, the client's socket is gone, the worker lives and the
\* entry is still there
C8_Witness ==
  \E t \in Tokens :
    /\ ext[t] # 0
    /\ eh[ext[t]].proc # 0
    /\ sock[eh[ext[t]].socket].peerClosed
    /\ SentFor(eh[ext[t]].socket) # {}
    /\ procs[eh[ext[t]].proc].state = "running"
    /\ procs[eh[ext[t]].proc].killed = 0
    /\ ~eh[ext[t]].disposed

\* C9 as stated: once a worker has exited, the socket most recently accepted
\* for its session is ended and the extension-host table has no entry that
\* leads to it.
C9_WorkerExitClosesSession ==
  \A w \in Conns :
    (w <= nForks /\ procs[w].state = "exited")
    => /\ eh[SupervisorOf(w)].disposed
       /\ sock[eh[SupervisorOf(w)].holder].state \in {"ended", "destroyed"}
       /\ \A t \in Tokens : ext[t] # SupervisorOf(w)

\* C10: an ExtensionHost request on a reconnection=true connection whose token
\* has no extension-host entry is answered by an error and the connection is
\* closed; that connection gets no entry, no pending start (no port search),
\* no supervisor and no worker.
C10_UnknownExtensionHostReconnectAborts ==
  \A p \in Conns : \A i \in ReqsOf(p) :
    (reqs[p][i].kind = "ExtensionHost" /\ holder[p].reconnection /\ reqs[p][i].found = 0)
    => /\ Replied(p, i)
       /\ ReplyTo(p, i) = [msg |-> ErrorMessage(NoPrevious), live |-> TRUE]
       /\ \A j \in DOMAIN sent[p] : j > reqs[p][i].at + 1 => ~sent[p][j].live
       /\ Aborted(p)
       /\ \A d \in Conns : details[d].holder # p /\ eh[d].socket # p
       /\ \A h \in pendingStart : h.holder # p
       /\ \A t \in Tokens : ext[t] # 0 => details[ext[t]].holder # p

C10_Witness ==
  \E p \in Conns : \E i \in ReqsOf(p) :
    /\ reqs[p][i].kind = "ExtensionHost" /\ holder[p].reconnection /\ reqs[p][i].found = 0
    /\ sock[p].state = "destroyed"
    /\ nForks = 0 /\ nDetails = 0

\* C19: whatever commit a connectionType request names, matching the product
\* commit or not, the step that handles it is the step the switch takes for
\* every other commit: replies, tables, client-connected events, supervisors
\* and pending starts come out the same.
C19_CommitIsNotFatal ==
  [][\A p \in Conns :
       (Len(reqs'[p]) = Len(reqs[p]) + 1
        /\ reqs'[p][Len(reqs'[p])].type = "connectionType")
       => LET rq == reqs'[p][Len(reqs'[p])] IN
          /\ \A c \in Commits : ConnectionTypeSwitch(p, rq.kind, rq.port, rq.extra, c)
          /\ nForks' = nForks
          /\ procs' = procs]_vars

\* requests naming another commit than the product's were served: a management
\* entry made and answered ok, a worker forked
C19_Witness ==
  /\ \E p \in Conns : \E i \in ReqsOf(p) :
       /\ reqs[p][i].kind = "Management"
       /\ reqs[p][i].commit # ProductCommit
       /\ reqs[p][i].found = 0
       /\ Replied(p, i)
       /\ ReplyTo(p, i) = [msg |-> OKMessage, live |-> TRUE]
       /\ \E t \in Tokens : mgmt[t] = p
  /\ \E p \in Conns : \E i \in ReqsOf(p) :
       /\ reqs[p][i].kind = "ExtensionHost"
       /\ reqs[p][i].commit # ProductCommit
       /\ \E d \in Conns : eh[d].socket = p /\ eh[d].proc # 0

\* this step handles an ExtensionHost request on holder p whose token has the
\* entry d, which has no supervisor yet
NoSupervisorStep(p, d) ==
  /\ Handles(p, "ExtensionHost")
  /\ d = ext[holder[p].token]
  /\ d # 0
  /\ ~details[d].extensionHost

\* C11: an ExtensionHost request that finds an entry without a supervisor is
\* aborted with "Extension host is not defined"; the table, the entry, the
\* supervisors and the pending start of the entry are left as they were, and
\* a pending start, when it resumes, forks exactly one worker for its entry.
C11_NoSupervisorYetAborts ==
  [][/\ \A p, d \in Conns : NoSupervisorStep(p, d)
          => /\ sent'[p] = Append(sent[p],
                  [msg |-> ErrorMessage(NoExtHost), live |-> TRUE])
             /\ proto'[p].disposed
             /\ <<p, proto[p].socket>> \in abortDrain'
             /\ ext' = ext
             /\ details' = details
             /\ eh' = eh
             /\ nForks' = nForks
             /\ procs' = procs
             /\ pendingStart' = pendingStart
             /\ \E h \in pendingStart' : h.details = d
     /\ \A h \in pendingStart : ~StillPending(h) =>
          /\ nForks' = nForks + 1
          /\ eh[h.details].proc = 0
          /\ eh'[h.details].proc = nForks'
          /\ procs'[nForks'].state = "running"]_vars

\* a second connection was turned away while the first awaited its port, and
\* the first one's worker, the only one, runs
C11_Witness ==
  \E p, d \in Conns : \E i \in ReqsOf(p) :
    /\ reqs[p][i].kind = "ExtensionHost"
    /\ reqs[p][i].found = d
    /\ Replied(p, i)
    /\ ReplyTo(p, i).msg = ErrorMessage(NoExtHost)
    /\ details[d].holder # p
    /\ details[d].extensionHost
    /\ eh[d].proc = 1
    /\ nForks = 1

\* this step handles an auth message on holder p
HandlesAuth(p) ==
  /\ Len(reqs'[p]) = Len(reqs[p]) + 1
  /\ reqs'[p][Len(reqs'[p])].type = "auth"

\* C12: handling an auth message appends exactly one {type:"sign", data:""}
\* to what the same protocol sends, sends nothing elsewhere, and changes no
\* table, event, supervisor or worker.
C12_AuthAnsweredBySign ==
  [][\A p \in Conns : HandlesAuth(p)
       => /\ sent'[p] = Append(sent[p], [msg |-> SignRequest, live |-> TRUE])
          /\ \A q \in Conns \ {p} : sent'[q] = sent[q]
          /\ SignRequest.type = "sign" /\ SignRequest.data = ""
          /\ UNCHANGED <<mgmt, connectEvents, ext, nDetails, details, eh, nForks,
                         procs, pendingStart, pendingSend>>]_vars

\* two auth messages on one connection, two signs
C12_Witness ==
  \E p \in Conns :
    /\ Len(reqs[p]) = 2
    /\ reqs[p][1].type = "auth" /\ reqs[p][2].type = "auth"
    /\ sent[p] = << [msg |-> SignRequest, live |-> TRUE],
                    [msg |-> SignRequest, live |-> TRUE] >>

\* C13 as stated: a connectionType request is routed on a connection only
\* after an auth message was received and answered with sign on it.
C13_ConnectionTypeOnlyAfterAuth ==
  \A p \in Conns : \A i \in ReqsOf(p) :
    reqs[p][i].type = "connectionType"
    => \E j \in ReqsOf(p) :
         /\ j < i
         /\ reqs[p][j].type = "auth"
         /\ Replied(p, j)
         /\ ReplyTo(p, j) = [msg |-> SignRequest, live |-> TRUE]

\* C14 as stated: on one connection the response to a request has been sent
\* on its protocol by the time the next control message is processed.
C14_ResponseBeforeNextMessage ==
  \A p \in Conns : \A i \in ReqsOf(p) :
    i < Len(reqs[p])
    => /\ reqs[p][i + 1].at > reqs[p][i].at
       /\ ReplyTo(p, i).live

\* the extension-host path succeeded for the request at position i of p: its
\* supervisor was started, or it was accepted as a reconnect
ExtensionHostSucceeded(p, i) ==
  /\ reqs[p][i].kind = "ExtensionHost"
  /\ \/ /\ reqs[p][i].found = 0
        /\ \E d \in Conns : details[d].holder = p /\ eh[d].socket = p /\ eh[d].proc # 0
     \/ /\ reqs[p][i].found # 0
        /\ Replied(p, i)
        /\ ReplyTo(p, i).msg.type = NoField

\* C15 as stated: once the extension-host path has succeeded for a request,
\* fresh or reconnect, an ok has gone out on that connection's protocol while
\* the protocol could still send.
C15_OkAfterExtensionHostSuccess ==
  \A p \in Conns : \A i \in ReqsOf(p) :
    ExtensionHostSucceeded(p, i)
    => \E j \in DOMAIN sent[p] :
         /\ j > reqs[p][i].at
         /\ sent[p][j] = [msg |-> OKMessage, live |-> TRUE]

\* C20: a Tunnel request is answered by one ok on its protocol, which stays as
\* it was; tables, events, supervisors, workers and pending work are unchanged.
C20_TunnelIsNoOp ==
  [][\A p \in Conns : Handles(p, "Tunnel")
       => /\ sent'[p] = Append(sent[p], [msg |-> OKMessage, live |-> TRUE])
          /\ \A q \in Conns \ {p} : sent'[q] = sent[q]
          /\ proto'[p].disposed = proto[p].disposed
          /\ sock' = sock
          /\ UNCHANGED <<mgmt, connectEvents, ext, nDetails, details, eh, nForks,
                         procs, pendingStart, pendingSend, abortDrain>>]_vars

\* a tunnel request served next to a management session and a worker
C20_Witness ==
  \E p \in Conns : \E i \in ReqsOf(p) :
    /\ reqs[p][i].kind = "Tunnel"
    /\ ReplyTo(p, i) = [msg |-> OKMessage, live |-> TRUE]
    /\ Len(connectEvents) = 1
    /\ \E t \in Tokens : mgmt[t] # 0
    /\ nForks = 1

\* ---- upgrade requests
\* a Sec-WebSocket-Key that is the base64 of a 16-byte nonce, blanks aside
IsNonce(k) == k # NoField /\ Trim(k) = SampleKey

\* C17: an upgrade request whose Sec-WebSocket-Key is missing or malformed is
\* answered with HTTP/1.1 400 and never with 101 Switching Protocols.
C17_BadKeyIsRejected ==
  (upgradeOut # NoResponse /\ ~IsNonce(upgradeReq.key))
    => /\ upgradeOut.status = BadRequest
       /\ upgradeOut.status # "HTTP/1.1 101 Switching Protocols"

\* the offers of permessage-deflate in a header, as token sequences
DeflateOffers(header) ==
  IF header = << >> THEN << >>
  ELSE SelectSeq(SplitOn(header, ","), LAMBDA seg : seg[1] = "permessage-deflate")

\* the tokens of an offer from position i on, with "=15" put behind every
\* client_max_window_bits that has no value
RECURSIVE WithDefaultBits(_, _)
WithDefaultBits(seg, i) ==
  IF i > Len(seg) THEN << >>
  ELSE << seg[i] >>
       \o (IF seg[i] = "client_max_window_bits" /\ (i = Len(seg) \/ seg[i + 1] # "=")
           THEN << "=", "15" >> ELSE << >>)
       \o WithDefaultBits(seg, i + 1)

RECURSIVE JoinOffers(_)
JoinOffers(segs) ==
  IF segs = << >> THEN << >>
  ELSE WithDefaultBits(segs[1], 1)
       \o (IF Len(segs) > 1 THEN << "," >> \o JoinOffers(Tail(segs)) ELSE << >>)

\* C18: the flag returned by the upgrade is true exactly when the client
\* offered permessage-deflate; then the 101 response has a
\* Sec-WebSocket-Extensions header that echoes the permessage-deflate offers,
\* with 15 for every client_max_window_bits given without a value and every
\* other parameter as offered; otherwise the response has no such header.
C18_DeflateEcho ==
  upgradeOut # NoResponse =>
    LET segs == DeflateOffers(upgradeReq.extensions) IN
    /\ upgradeOut.permessageDeflate <=> segs # << >>
    /\ segs # << >> =>
         /\ upgradeOut.status = "HTTP/1.1 101 Switching Protocols"
         /\ upgradeOut.hasExtensions
         /\ upgradeOut.extensions = JoinOffers(segs)
    /\ segs = << >> => ~upgradeOut.hasExtensions

\* two offers answered: one with a valueless client_max_window_bits behind
\* another parameter, one with a value of its own
C18_Witness ==
  /\ upgradeOut # NoResponse
  /\ upgradeReq.extensions =
       << "permessage-deflate", ";", "server_no_context_takeover", ";",
          "client_max_window_bits", ",",
          "permessage-deflate", ";", "client_max_window_bits", "=", "10" >>
  /\ upgradeOut.extensions =
       << "permessage-deflate", ";", "server_no_context_takeover", ";",
          "client_max_window_bits", "=", "15", ",",
          "permessage-deflate", ";", "client_max_window_bits", "=", "10" >>


\* ---- reconnection token of the query
\* connection c came without a single non-empty reconnectionToken
BadToken(c) == c <= nConns /\ sock[c].token \in {MissingToken, "", ArrayToken}

\* nothing of the broker was made for, or heard from, connection c
Refused(c) ==
  /\ Len(sock[c].wrote) > 0
  /\ sock[c].wrote[Len(sock[c].wrote)] = BadRequest
  /\ sock[c].state \in {"ended", "destroyed"}
  /\ holder[c] = NoHolder
  /\ proto[c] = NoProto
  /\ reqs[c] = << >>
  /\ sent[c] = << >>
  /\ \A t \in Tokens : mgmt[t] # c
  /\ \A d \in 1..nDetails : details[d].holder # c
  /\ \A i \in DOMAIN connectEvents : connectEvents[i].protocol # c

\* C16: a socket whose reconnectionToken is missing, empty or an array is
\* answered 400 and closed; no protocol holder is ever constructed for it, no
\* control message of it is ever processed, and accepting it changes neither
\* session table.
C16_BadTokenIsRefused ==
  [][/\ \A c \in Conns : BadToken(c)' => Refused(c)'
     /\ \A c \in Conns :
          (c > nConns /\ BadToken(c)')
            => (mgmt' = mgmt /\ ext' = ext /\ details' = details /\ eh' = eh)]_vars

\* a refused socket next to a management session that was registered before
\* it came
C16_Witness ==
  \E c \in Conns :
    /\ BadToken(c)
    /\ sock[c].wrote = << "HTTP/1.1 101 Switching Protocols", BadRequest >>
    /\ \E t \in Tokens : mgmt[t] # 0 /\ mgmt[t] < c


\* ---- URI transformer
\* C28: with the session authority fixed, transformOutgoing after
\* transformIncoming gives back every vscode-remote URI of that authority, and
\* transformIncoming after transformOutgoing gives back every file URI.
C28_RoundTrip ==
  uriRun.applied =>
    /\ (uriRun.uri.scheme = "vscode-remote"
        /\ uriRun.uri.authority = uriRun.remoteAuthority)
         => uriRun.outgoingOfIncoming = uriRun.uri
    /\ uriRun.uri.scheme = "file" => uriRun.incomingOfOutgoing = uriRun.uri

\* C29: transformIncoming maps file to vscode-local and vscode-remote to file,
\* keeping the path, and leaves any other URI as it is; transformOutgoing maps
\* file to vscode-remote with the session authority and vscode-local to file,
\* keeping the path, and leaves any other URI as it is; transformOutgoingScheme
\* gives the scheme of transformOutgoing's result.
C29_TransformerTable ==
  uriRun.applied =>
    LET u == uriRun.uri IN
    /\ u.scheme = "file" =>
         /\ uriRun.incoming.scheme = "vscode-local"
         /\ uriRun.incoming.path = u.path
         /\ uriRun.outgoing.scheme = "vscode-remote"
         /\ uriRun.outgoing.authority = uriRun.remoteAuthority
         /\ uriRun.outgoing.path = u.path
    /\ u.scheme = "vscode-remote" =>
         /\ uriRun.incoming.scheme = "file"
         /\ uriRun.incoming.path = u.path
         /\ uriRun.outgoing = u
    /\ u.scheme = "vscode-local" =>
         /\ uriRun.incoming = u
         /\ uriRun.outgoing.scheme = "file"
         /\ uriRun.outgoing.path = u.path
    /\ u.scheme \notin {"file", "vscode-remote", "vscode-local"} =>
         /\ uriRun.incoming = u
         /\ uriRun.outgoing = u
    /\ uriRun.outgoingScheme = uriRun.outgoing.scheme

\* a file URI that names another authority went out under the session's
C29_Witness ==
  /\ uriRun.applied
  /\ uriRun.uri.scheme = "file"
  /\ uriRun.uri.authority = "hostB"
  /\ uriRun.remoteAuthority = "hostA"
  /\ uriRun.outgoing = UriParts("vscode-remote", "hostA", uriRun.uri.path, NoField, NoField)
  /\ uriRun.incoming.scheme = "vscode-local"

\* ---- startup
\* C30: when an error is thrown during startup (initializing the services and
\* claiming the instance included), the HTTP server is not started and the
\* process exits with code 1.
C30_StartupErrorExits ==
  main.thrown # << >> =>
    /\ ~main.httpServer
    /\ main.pc \in {"started", "exited"} => main.exitCode = 1


\* ---- disposal of sessions
\* this step is the dispose() that marks the management entry of t disposed
DisposesManagement(t) == t \notin mgmtDisposed /\ t \in mgmtDisposed'

\* C22: disposing a management session sends a disconnect, closes the
\* session's socket and drops its entry from the management table; a later
\* Management request with the same token is then rejected as unknown when
\* reconnection=true and makes a fresh session when reconnection=false.
C22_DisposeDropsEntry ==
  [][/\ \A t \in Tokens : DisposesManagement(t) =>
          /\ Len(sent'[mgmt[t]]) = Len(sent[mgmt[t]]) + 1
          /\ sent'[mgmt[t]][Len(sent'[mgmt[t]])].msg = DisconnectMessage
          /\ sock'[proto[mgmt[t]].socket].state \in {"ended", "destroyed"}
          /\ mgmt'[t] = 0
     /\ \A p \in Conns :
          (Handles(p, "Management") /\ holder[p].token \in mgmtDisposed) =>
            IF holder[p].reconnection
            THEN /\ sent'[p][Len(sent'[p])].msg = ErrorMessage(UnknownToken)
                 /\ mgmt' = mgmt
            ELSE /\ mgmt'[holder[p].token] = p
                 /\ Len(connectEvents') = Len(connectEvents) + 1]_vars

\* the session that holder p's protocol belongs to was disposed (a management
\* entry marked disposed, an extension-host entry deleted by its disconnect
\* listener), or p's connection was aborted
SessionOver(p) ==
  \/ \E t \in mgmtDisposed : mgmt[t] = p
  \/ \E d \in 1..nDetails : details[d].holder = p /\ ext[holder[p].token] # d
  \/ \E i \in DOMAIN sent[p] : sent[p][i].msg.type = "error"

\* C23: once a session was disposed or a connection aborted, no control
\* message arriving on its protocol is handled any more.
C23_NothingHandledAfterDispose ==
  [][\A p \in Conns : SessionOver(p) => reqs'[p] = reqs[p]]_vars


\* ---- the two tables
\* each table has, for a token, the one entry made for that token
OneEntryPerToken ==
  \A t \in Tokens :
    /\ mgmt[t] # 0 => holder[mgmt[t]].token = t
    /\ ext[t] # 0 => ext[t] <= nDetails /\ holder[details[ext[t]].holder].token = t
    /\ Cardinality({i \in DOMAIN connectEvents : connectEvents[i].token = t})
         = IF mgmt[t] # 0 THEN 1 ELSE 0

\* this step resumes a handler suspended in the extension-host case
ResumesStart == pendingStart' # pendingStart /\ reqs' = reqs

\* C21: handling a Management request never creates, changes or removes an
\* entry of the extension-host table, handling an ExtensionHost request (its
\* resumption after the port search included) never creates, changes or
\* removes an entry of the management table, and each table holds at most one
\* entry per token.
C21_TablesAreIndependent ==
  [][/\ \A p \in Conns :
          /\ Handles(p, "Management") =>
               (ext' = ext /\ nDetails' = nDetails /\ details' = details /\ eh' = eh)
          /\ Handles(p, "ExtensionHost") =>
               (mgmt' = mgmt /\ mgmtDisposed' = mgmtDisposed
                /\ connectEvents' = connectEvents)
     /\ ResumesStart =>
          (mgmt' = mgmt /\ mgmtDisposed' = mgmtDisposed /\ connectEvents' = connectEvents)
     /\ OneEntryPerToken']_vars

\* one token with a session of each kind, the management one made second
C21_Witness ==
  \E t \in Tokens :
    /\ mgmt[t] # 0
    /\ ext[t] # 0
    /\ details[ext[t]].extensionHost
    /\ \E i \in ReqsOf(mgmt[t]) :
         /\ reqs[mgmt[t]][i].kind = "Management"
         /\ reqs[mgmt[t]][i].found = 0
         /\ \A k \in DOMAIN sent[details[ext[t]].holder] :
              sent[details[ext[t]].holder][k].msg.type # "error"


\* ---- debug ports
\* a supervisor was started for details d, and w is the worker it forked
Started(d) == d <= nDetails /\ eh[d].proc # 0

\* C24: a fresh extension-host connect that asks for debug port 0 gets a free
\* port P of the allocator's range before its supervisor starts: the stored
\* port is P and not 0, the worker is forked with --inspect=0.0.0.0:P
\* (--inspect-brk with break), and reconnects are told the stored P; without a
\* port asked the worker is forked without --inspect.
C24_DebugPortAllocated ==
  /\ \A d \in Conns : Started(d) =>
       LET w == eh[d].proc IN
       /\ details[d].port # 0
       /\ details[d].port # Undef =>
            /\ details[d].port \in Ports
            /\ procs[w].port = details[d].port
            /\ procs[w].brk = details[d].brk
       /\ details[d].port = Undef => (procs[w].port = Undef /\ ~procs[w].brk)
  /\ \A p \in Conns : \A i \in ReqsOf(p) :
       (reqs[p][i].kind = "ExtensionHost" /\ reqs[p][i].found # 0 /\ Replied(p, i)
        /\ ReplyTo(p, i).msg.type = NoField /\ details[reqs[p][i].found].port # Undef)
         => ReplyTo(p, i).msg.debugPort = details[reqs[p][i].found].port

\* this step resumes the handler h after its port search
Resolves(h) == h \in pendingStart /\ eh[h.details].proc = 0 /\ eh'[h.details].proc # 0

\* C25: when the port search of a request with port 0 finds no free port, the
\* session is denied: no worker is forked, no ok reaches the connection, and
\* the other sessions are left as they were.
C25_ExhaustedAllocatorDenies ==
  [][\A h \in pendingStart :
       (h.io /\ ~StillPending(h)
        /\ details'[h.details].port = 0)
         => /\ nForks' = nForks
            /\ procs' = procs
            /\ \A k \in DOMAIN sent'[h.holder] :
                 k > Len(sent[h.holder]) =>
                   ~(sent'[h.holder][k].msg = OKMessage /\ sent'[h.holder][k].live)
            /\ mgmt' = mgmt
            /\ \A d \in Conns : d # h.details => (details'[d] = details[d] /\ eh'[d] = eh[d])]_vars

\* C26: two extension-host sessions of different tokens whose port searches
\* overlap never get the same debug port.
C26_ConcurrentPortsDiffer ==
  [][\A h \in pendingStart :
       (Resolves(h) /\ h.io /\ details'[h.details].port > 0)
         => \A x \in h.seen :
              x[2] # holder[h.holder].token => x[1] # details'[h.details].port]_vars

\* C27: when the worker emits error before VSCODE_EXTHOST_IPC_READY, the
\* session is disposed and the client socket closed, no
\* VSCODE_EXTHOST_IPC_SOCKET is sent to that worker afterwards, and no token's
\* extension-host entry keeps the supervisor of that worker.
C27_ForkFailureDisposesSession ==
  \A w \in Conns : procs[w].errorAt # Undef =>
    LET d == SupervisorOf(w) IN
    /\ eh[d].disposed
    /\ sock[eh[d].socket].state \in {"ended", "destroyed"}
    /\ \A k \in DOMAIN ipcLog : k > procs[w].errorAt => ipcLog[k].to # w
    /\ \A t \in Tokens : ext[t] # d

\* C31: serveFile answers 304 with an empty body, the file never read, when
\* If-None-Match equals the weak ETag built from the file's inode, size and
\* mtime; otherwise 200 carrying that ETag; 404 when the file cannot be
\* stat'ed; and it writes exactly one status per request.
C31_ServeFileEtag ==
  /\ Len(http.writeHead) <= 1
  /\ http.reads > 0 => http.writeHead = << 200 >>
  /\ http.pc \in {"pipe", "done", "streamError"} =>
       /\ Len(http.writeHead) = 1
       /\ http.file = NoStat => http.writeHead = << 404 >>
       /\ (http.file # NoStat /\ http.ifNoneMatch = Etag(http.file)) =>
            /\ http.writeHead = << 304 >>
            /\ http.ended
            /\ http.body = << >>
            /\ http.reads = 0
       /\ (http.file # NoStat /\ http.ifNoneMatch # Etag(http.file)) =>
            /\ http.writeHead = << 200 >>
            /\ http.headers.etag = Etag(http.file)

\* a request whose validator matched was answered 304 and is over
C31_Witness ==
  /\ http.pc = "done"
  /\ http.file # NoStat
  /\ http.ifNoneMatch = Etag(http.file)
  /\ http.writeHead = << 304 >>

\* this step runs abortWebSocketConnection on holder p up to its await
AbortsHere(p) == \E c \in Conns : <<p, c>> \in abortDrain' \ abortDrain

\* C32: an abort writes {type: "error", reason} on the holder's protocol while
\* it still writes, disposes the protocol and leaves the socket open until it
\* has drained; when the drain is over it closes that socket and no other;
\* neither step changes a session table, and the handler of the aborted
\* request sends nothing else, so no ok.
C32_AbortContract ==
  [][/\ \A p \in Conns : AbortsHere(p) =>
          /\ Len(sent'[p]) = Len(sent[p]) + 1
          /\ sent'[p][Len(sent'[p])].msg.type = "error"
          /\ sent'[p][Len(sent'[p])].live
          /\ proto'[p].disposed
          /\ <<p, proto[p].socket>> \in abortDrain'
          /\ sock' = sock
          /\ mgmt' = mgmt
          /\ ext' = ext
     /\ \A a \in abortDrain : a \notin abortDrain' =>
          /\ sock'[a[2]].state = "destroyed"
          /\ \A c \in Conns : c # a[2] => sock'[c] = sock[c]
          /\ sent' = sent
          /\ mgmt' = mgmt
          /\ ext' = ext]_vars

\* a client is subscribed to the filechange event of the session
Subscribed(session) ==
  \E e \in DOMAIN fsChannel.emitters :
    fsChannel.emitters[e].arg0 = session /\ fsChannel.emitters[e].listeners = 1

\* this step is the given call with the arguments (session, req)
Calls(command, session, req) ==
  /\ fsChannel'.calls = fsChannel.calls + 1
  /\ fsChannel'.last = [command |-> command, session |-> session, req |-> req]

\* C33: with a client subscribed to filechange for session S, watch(S, req)
\* starts a watch on the session's watcher and records its disposable for
\* (S, req); unwatch(S, req) disposes the recorded watch once and removes the
\* record, and is a no-op when there is none; every watch not yet disposed is
\* still recorded.
C33_WatchLifecycle ==
  [][\A se \in Sessions, r \in WatchReqs :
       /\ (Calls("watch", se, r) /\ Subscribed(se)) =>
            /\ Len(fsChannel'.watches) = Len(fsChannel.watches) + 1
            /\ fsChannel'.fileWatcherDisposables[WatchKey(se, r)] = Len(fsChannel'.watches)
            /\ fsChannel'.watches[Len(fsChannel'.watches)].provider = fsChannel.fileWatchers[se]
       /\ Calls("unwatch", se, r) =>
            LET d == fsChannel.fileWatcherDisposables[WatchKey(se, r)] IN
            /\ fsChannel'.fileWatcherDisposables[WatchKey(se, r)] = 0
            /\ d # 0 => /\ fsChannel.watches[d].disposed = 0
                        /\ fsChannel'.watches[d].disposed = 1
            /\ d = 0 => fsChannel'.watches = fsChannel.watches
       /\ \A d \in DOMAIN fsChannel'.watches :
            fsChannel'.watches[d].disposed = 0 =>
              \E k \in MapKeys : fsChannel'.fileWatcherDisposables[k] = d]_vars

\* C34: the read of a readFileStream listen is cancelled in the step that
\* removes the last listener while the read is under way, and in no other
\* step; each chunk read is delivered, wrapped, to every listener in the order
\* of the file; the end delivers 'end' to every listener and disposes the
\* emitter and the token source, and nothing is delivered after it.
C34_CancelOnLastUnsubscribe ==
  [][/\ (fileStream'.read = "cancelled" /\ fileStream.read # "cancelled") =>
          /\ fileStream.listeners # {}
          /\ fileStream'.listeners = {}
          /\ ~fileStream'.emitterDisposed
     /\ (/\ fileStream.listeners # {}
         /\ fileStream'.listeners = {}
         /\ ~fileStream'.emitterDisposed
         /\ fileStream.read = "reading") => fileStream'.read = "cancelled"
     /\ fileStream'.pos = fileStream.pos + 1 =>
          \A l \in fileStream.listeners :
            fileStream'.delivered[l] =
              Append(fileStream.delivered[l],
                     DataPayload(fileStream.file[fileStream.pos + 1]))
     /\ (fileStream'.pc = "closed" /\ fileStream.pc # "closed") =>
          /\ \A l \in fileStream.listeners :
               fileStream'.delivered[l] = Append(fileStream.delivered[l], EndPayload)
          /\ fileStream'.emitterDisposed
          /\ fileStream'.sourceDisposed
     /\ fileStream.pc = "closed" => fileStream'.delivered = fileStream.delivered]_vars

\* the read was cancelled after a chunk had been delivered: the last of two
\* listeners has gone
C34_Witness ==
  /\ fileStream.read = "cancelled"
  /\ fileStream.subscribed = 2
  /\ fileStream.listeners = {}
  /\ fileStream.pos = 1
  /\ Len(fileStream.delivered[1]) >= 1

\* an exit event, an error event or dispose() has reached the supervisor d
DisposeEvents(d) ==
  /\ eh[d].proc # 0
  /\ \/ procs[eh[d].proc].state = "exited"
     \/ procs[eh[d].proc].errors > 0
     \/ ~details[d].extensionHost

\* C35: whatever worker exits, worker errors and dispose() calls reach a
\* supervisor, it ends its socket at most once and kills its worker at most
\* once, and has done both as soon as one of them has happened.
C35_DisposeIsIdempotent ==
  \A d \in Conns :
    /\ eh[d].ends <= 1
    /\ eh[d].proc # 0 => procs[eh[d].proc].killed <= 1
    /\ eh[d].disposed <=> eh[d].ends = 1
    /\ DisposeEvents(d) =>
         /\ eh[d].ends = 1
         /\ procs[eh[d].proc].killed = 1
         /\ sock[eh[d].socket].state \in {"ended", "destroyed"}

\* a worker reported an error and then exited: its supervisor was disposed by
\* the first and left alone by the second
C35_Witness ==
  \E d \in Conns :
    /\ eh[d].proc # 0
    /\ procs[eh[d].proc].errors > 0
    /\ procs[eh[d].proc].state = "exited"
    /\ eh[d].ends = 1
    /\ procs[eh[d].proc].killed = 1

\* the token of the session the worker w was forked for
TokenOf(w) == holder[details[SupervisorOf(w)].holder].token

\* no two entries and no two supervisors have the same worker, and two workers
\* were forked for one token only if the entry of one of them had been
\* deleted from the table in between
OneWorkerPerEntry ==
  /\ \A t1, t2 \in Tokens : (t1 # t2 /\ ext[t1] # 0) => ext[t1] # ext[t2]
  /\ \A d1, d2 \in Conns : (d1 # d2 /\ eh[d1].proc # 0) => eh[d1].proc # eh[d2].proc
  /\ \A w1, w2 \in 1..nForks :
       (w1 # w2 /\ TokenOf(w1) = TokenOf(w2)) =>
         \/ details[SupervisorOf(w1)].dropped
         \/ details[SupervisorOf(w2)].dropped

\* C36: whatever ExtensionHost requests carry a token, fresh or reconnecting,
\* also while the first is suspended, an entry that has a worker keeps that
\* worker and is never given another, a fork is made only for an entry that
\* has none, and no second worker is forked for the token while its entry
\* stays in the table; no worker belongs to two entries.
C36_OneForkPerEntry ==
  [][/\ \A d \in Conns : eh[d].proc # 0 => eh'[d].proc = eh[d].proc
     /\ nForks' # nForks =>
          /\ nForks' = nForks + 1
          /\ \E d \in Conns : eh[d].proc = 0 /\ eh'[d].proc = nForks'
     /\ OneWorkerPerEntry']_vars

\* three ExtensionHost requests with one token, the second while the first
\* was suspended and the third a reconnect, and one worker
C36_Witness ==
  \E p, q, r \in Conns :
    /\ p # q /\ q # r /\ p # r
    /\ holder[p].token = holder[q].token /\ holder[q].token = holder[r].token
    /\ \A c \in {p, q, r} : Len(reqs[c]) = 1 /\ reqs[c][1].kind = "ExtensionHost"
    /\ reqs[p][1].found = 0
    /\ reqs[q][1].found # 0 /\ Replied(q, 1) /\ ReplyTo(q, 1).msg = ErrorMessage(NoExtHost)
    /\ reqs[r][1].found # 0 /\ Replied(r, 1) /\ ReplyTo(r, 1).msg.type # "error"
    /\ nForks = 1

\* C37: in every VSCODE_EXTHOST_IPC_SOCKET message the inflateBytes, the
\* permessageDeflate flag and the skipWebSocketFrames flag are those of the
\* connection whose socket is handed off, and the initialDataChunk is the
\* base64 of the bytes that were buffered behind a request of that connection.
C37_HandOffIsConsistent ==
  \A k \in DOMAIN ipcLog :
    LET m == ipcLog[k]
        c == m.socket
    IN /\ m.permessageDeflate = holder[c].permessageDeflate
       /\ m.skipWebSocketFrames = holder[c].skipWebSocketFrames
       /\ m.inflateBytes = Base64(RecordedInflateBytes(c))
       /\ \E i \in ReqsOf(c) : m.initialDataChunk = Base64(reqs[c][i].extra)

\* C38: the protocol of the resident holder of a management entry goes from
\* live to disposed only in the step that disposes the entry, and a control
\* message handled on the resident holder's own connection leaves that
\* protocol, its socket and what it has buffered as they were: the session is
\* not reconnected onto itself.
C38_ResidentProtocolStays ==
  [][\A t \in Tokens :
       LET r == mgmt[t] IN
       r # 0 =>
         /\ (~proto[r].disposed /\ proto'[r].disposed) => DisposesManagement(t)
         /\ Len(reqs'[r]) = Len(reqs[r]) + 1 =>
              /\ proto'[r].socket = proto[r].socket
              /\ ~proto'[r].disposed
              /\ sock'[proto[r].socket].state = sock[proto[r].socket].state]_vars

\* the terminal replies ({type:"ok"} or {type:"error"}) that this step writes
\* on holder p's protocol
TerminalWritten(p) ==
  {j \in (Len(sent[p]) + 1)..Len(sent'[p]) : sent'[p][j].msg.type \in {"ok", "error"}}

\* C39 as stated: the handling of a connectionType request writes at most one
\* terminal reply on the requesting connection's protocol: never an ok and an
\* error, never two ok messages, whatever the kind of the request.
C39_OneTerminalReply ==
  [][\A p \in Conns : \A kind \in {"Management", "ExtensionHost", "Tunnel"} :
       Handles(p, kind) => Cardinality(TerminalWritten(p)) <= 1]_vars

\* the VSCODE_EXTHOST_IPC_SOCKET messages sent to worker w with the socket its
\* supervisor was constructed with
FirstHandOffs(w) ==
  {j \in DOMAIN ipcLog :
     /\ ipcLog[j].to = w
     /\ ipcLog[j].socket = eh[SupervisorOf(w)].socket}

\* connection p has asked to reconnect to the session of supervisor d
ReconnectedOn(p, d) ==
  \E i \in DOMAIN reqs[p] : reqs[p][i].kind = "ExtensionHost" /\ reqs[p][i].found = d

\* C40: a worker that has not sent VSCODE_EXTHOST_IPC_READY has been sent no
\* hand-off message by the listener of start, however long it waits: what it
\* was sent carries the socket of a connection that asked to reconnect; and
\* once a forked worker has sent READY, the message with the first socket of
\* its session is eventually sent to it, or the worker has exited.
C40_FirstHandOffLiveness ==
  /\ [](\A j \in DOMAIN ipcLog :
          ~procs[ipcLog[j].to].ready => ReconnectedOn(ipcLog[j].socket, ipcLog[j].eh))
  /\ \A w \in Conns :
       (w <= nForks /\ procs[w].ready)
         ~> (procs[w].state # "running" \/ FirstHandOffs(w) # {})

\* a worker that is still running has sent READY and has been handed the
\* socket of its session
C40_Witness ==
  \E w \in Conns :
    /\ w <= nForks
    /\ procs[w].ready
    /\ procs[w].state = "running"
    /\ FirstHandOffs(w) # {}

====
